---- MODULE Spec2Model ----
(***************************************************************************)
(* 86 Visual Inventory Manager: the local persistence store               *)
(* (utils/localStorage), the availability detector of App, and the pages' *)
(* choice between the remote gateway and the local store.                 *)
(*                                                                         *)
(* Conventions                                                             *)
(*   - localStorage is a function from the keys that were written to the   *)
(*     stored text; a stored text is [json |-> v] (what JSON.stringify     *)
(*     wrote, v the array) or [raw |-> s] (text JSON.parse rejects).       *)
(*   - An operation of the store is an operator from the storage to        *)
(*     [st |-> storage after, threw |-> whether the promise rejected].     *)
(*   - `now` is the clock that new Date() / Date.now() read.               *)
(*   - Undefined (-1) stands for an absent optional numeric field.         *)
(***************************************************************************)
EXTENDS Integers, Sequences, FiniteSets, TLC

VARIABLES
    storage,     \* window.localStorage: key -> stored text
    now,         \* the clock
    lastOp,      \* the store operation that ran last (history)
    lastSaved    \* <<table, userId, id>> -> the last save of that id: the value
                 \* passed and, for an inventory item, whether the id was saved
                 \* before and when; dropped when the id is deleted (history)

VARIABLES
    user,             \* App: useState(null) - Null or the user object
    loading,          \* App: useState(true)
    databaseError,    \* App: useState(false)
    databaseChecked,  \* App: useState(false)
    probes,           \* the checkDatabaseAvailability calls awaiting the gateway
    lastEvent         \* the App event handled last (history)

VARIABLES
    remote,           \* the records behind blink.db, one array per kind
    page,             \* the state of the page component that is mounted
    lastCall,         \* the page handler that ran last and its backend calls (history)
    pending           \* the operations suspended at an await: name -> where it
                      \* stands and what it holds in its local variables

storeVars == <<storage, now, lastOp, lastSaved>>
appVars == <<user, loading, databaseError, databaseChecked, probes, lastEvent>>
pageVars == <<remote, page, lastCall, pending>>
vars == <<storage, now, lastOp, lastSaved,
          user, loading, databaseError, databaseChecked, probes, lastEvent,
          remote, page, lastCall, pending>>

-----------------------------------------------------------------------------
(* Bounds and input sets *)

MaxTime == 2

\* records the local store holds at most, all collections together
MaxRecords == 3

\* availability probes in flight at most
MaxProbes == 1

Undefined == -1

Users == {"u1", "u2"}
ImageIds == {"img1", "img2"}
ZoneIds == {"z1", "z2"}
ItemIds == {"i1", "i2"}
Tables == {"images", "zones", "inventory"}

Null == [null |-> TRUE]

-----------------------------------------------------------------------------
(* Record shapes *)

KitchenImage(id, name, imageUrl, userId, createdAt) ==
    [id |-> id, name |-> name, imageUrl |-> imageUrl, userId |-> userId,
     createdAt |-> createdAt]

Zone(id, imageId, name, width, height, userId, createdAt) ==
    [id |-> id, imageId |-> imageId, name |-> name, x |-> 0, y |-> 0,
     width |-> width, height |-> height, color |-> "hsl", userId |-> userId,
     createdAt |-> createdAt]

InventoryItem(id, zoneId, name, quantity, reorderThreshold, userId, createdAt, updatedAt) ==
    [id |-> id, zoneId |-> zoneId, name |-> name, quantity |-> quantity,
     unit |-> "pieces", costPerUnit |-> Undefined,
     reorderThreshold |-> reorderThreshold, notes |-> "", userId |-> userId,
     createdAt |-> createdAt, updatedAt |-> updatedAt]

-----------------------------------------------------------------------------
(* localStorage and JSON *)

getItem(st, key) == IF key \in DOMAIN st THEN st[key] ELSE Null

setItem(st, key, text) ==
    [k \in DOMAIN st \cup {key} |-> IF k = key THEN text ELSE st[k]]

JSONstringify(v) == [json |-> v]

JSONparses(text) == "json" \in DOMAIN text

JSONparse(text) == text.json

Ok(st) == [st |-> st, threw |-> FALSE]

Throw(st) == [st |-> st, threw |-> TRUE]

-----------------------------------------------------------------------------
(* Array helpers *)

Range(seq) == {seq[i] : i \in 1..Len(seq)}

\* Array.prototype.findIndex on the id: zero-based, -1 when absent
findIndex(arr, id) ==
    IF \E i \in 1..Len(arr) : arr[i].id = id
    THEN (CHOOSE i \in 1..Len(arr) :
             /\ arr[i].id = id
             /\ \A j \in 1..(i - 1) : arr[j].id # id) - 1
    ELSE -1

unshift(arr, x) == <<x>> \o arr

push(arr, x) == Append(arr, x)

replaceAt(arr, index, x) == [arr EXCEPT ![index + 1] = x]

RECURSIVE filterOutId(_, _)
filterOutId(arr, id) ==
    IF arr = <<>> THEN <<>>
    ELSE IF Head(arr).id # id THEN <<Head(arr)>> \o filterOutId(Tail(arr), id)
         ELSE filterOutId(Tail(arr), id)

RECURSIVE filterZoneIdIs(_, _)
filterZoneIdIs(arr, zoneId) ==
    IF arr = <<>> THEN <<>>
    ELSE IF Head(arr).zoneId = zoneId
         THEN <<Head(arr)>> \o filterZoneIdIs(Tail(arr), zoneId)
         ELSE filterZoneIdIs(Tail(arr), zoneId)

RECURSIVE filterZoneIdIsNot(_, _)
filterZoneIdIsNot(arr, zoneId) ==
    IF arr = <<>> THEN <<>>
    ELSE IF Head(arr).zoneId # zoneId
         THEN <<Head(arr)>> \o filterZoneIdIsNot(Tail(arr), zoneId)
         ELSE filterZoneIdIsNot(Tail(arr), zoneId)

RECURSIVE filterImageIdIs(_, _)
filterImageIdIs(arr, imageId) ==
    IF arr = <<>> THEN <<>>
    ELSE IF Head(arr).imageId = imageId
         THEN <<Head(arr)>> \o filterImageIdIs(Tail(arr), imageId)
         ELSE filterImageIdIs(Tail(arr), imageId)

-----------------------------------------------------------------------------
(* class LocalStorageDB *)

\* getKey without the user id
getKeyShared(table, userId) == "86_inventory_" \o table

getKey(table, userId) == "86_inventory_" \o table \o "_" \o userId

\* whether the read of a table of a user succeeds (JSON.parse does not throw)
readable(st, table, userId) ==
    LET data == getItem(st, getKey(table, userId))
    IN  data = Null \/ JSONparses(data)

\* data ? JSON.parse(data) : []
readAll(st, table, userId) ==
    LET data == getItem(st, getKey(table, userId))
    IN  IF data # Null THEN JSONparse(data) ELSE <<>>

getImages(st, userId) == readAll(st, "images", userId)

\* imageId = "" is falsy: no filter
getZones(st, userId, imageId) ==
    LET zones == readAll(st, "zones", userId)
    IN  IF imageId # "" THEN filterImageIdIs(zones, imageId) ELSE zones

\* zoneId = "" is falsy: no filter
getInventoryItems(st, userId, zoneId) ==
    LET items == readAll(st, "inventory", userId)
    IN  IF zoneId # "" THEN filterZoneIdIs(items, zoneId) ELSE items

\* saveImage without the lookup of an existing id
saveImageNoLookup(st, userId, image) ==
    IF ~readable(st, "images", userId) THEN Throw(st)
    ELSE Ok(setItem(st, getKey("images", userId),
                    JSONstringify(unshift(getImages(st, userId), image))))

saveImage(st, userId, image) ==
    IF ~readable(st, "images", userId) THEN Throw(st)
    ELSE LET images == getImages(st, userId)
             existingIndex == findIndex(images, image.id)
             written == IF existingIndex >= 0
                        THEN replaceAt(images, existingIndex, image)
                        ELSE unshift(images, image)
         IN  Ok(setItem(st, getKey("images", userId), JSONstringify(written)))

\* deleteImage that also removes the zones drawn on the image
deleteImageCascading(st, userId, imageId) ==
    IF ~readable(st, "images", userId) THEN Throw(st)
    ELSE LET st1 == setItem(st, getKey("images", userId),
                            JSONstringify(filterOutId(getImages(st, userId), imageId)))
             kept == SelectSeq(readAll(st1, "zones", userId),
                               LAMBDA z : z.imageId # imageId)
         IN  Ok(setItem(st1, getKey("zones", userId), JSONstringify(kept)))

deleteImage(st, userId, imageId) ==
    IF ~readable(st, "images", userId) THEN Throw(st)
    ELSE LET images == getImages(st, userId)
             filtered == filterOutId(images, imageId)
         IN  Ok(setItem(st, getKey("images", userId), JSONstringify(filtered)))

saveZone(st, userId, zone) ==
    IF ~readable(st, "zones", userId) THEN Throw(st)
    ELSE LET zones == getZones(st, userId, "")
             existingIndex == findIndex(zones, zone.id)
             written == IF existingIndex >= 0
                        THEN replaceAt(zones, existingIndex, zone)
                        ELSE push(zones, zone)
         IN  Ok(setItem(st, getKey("zones", userId), JSONstringify(written)))

\* deleteItemsByZone that filters on the item's id instead of its zoneId
deleteItemsByZoneOnId(st, userId, zoneId) ==
    IF ~readable(st, "inventory", userId) THEN Throw(st)
    ELSE Ok(setItem(st, getKey("inventory", userId),
                    JSONstringify(filterOutId(readAll(st, "inventory", userId), zoneId))))

deleteItemsByZone(st, userId, zoneId) ==
    IF ~readable(st, "inventory", userId) THEN Throw(st)
    ELSE LET items == getInventoryItems(st, userId, "")
             filtered == filterZoneIdIsNot(items, zoneId)
         IN  Ok(setItem(st, getKey("inventory", userId), JSONstringify(filtered)))

\* deleteZone that writes nothing unless both collections can be read
deleteZoneAllOrNothing(st, userId, zoneId) ==
    IF ~readable(st, "zones", userId) \/ ~readable(st, "inventory", userId) THEN Throw(st)
    ELSE deleteItemsByZone(
             setItem(st, getKey("zones", userId),
                     JSONstringify(filterOutId(getZones(st, userId, ""), zoneId))),
             userId, zoneId)

deleteZone(st, userId, zoneId) ==
    IF ~readable(st, "zones", userId) THEN Throw(st)
    ELSE LET zones == getZones(st, userId, "")
             filtered == filterOutId(zones, zoneId)
             st1 == setItem(st, getKey("zones", userId), JSONstringify(filtered))
         IN  deleteItemsByZone(st1, userId, zoneId)

\* saveInventoryItem that puts a new item in front
saveInventoryItemAtHead(st, userId, item, date) ==
    IF ~readable(st, "inventory", userId) THEN Throw(st)
    ELSE LET items == getInventoryItems(st, userId, "")
             existingIndex == findIndex(items, item.id)
             written == IF existingIndex >= 0
                        THEN replaceAt(items, existingIndex,
                                       [item EXCEPT !.updatedAt = date])
                        ELSE unshift(items, item)
         IN  Ok(setItem(st, getKey("inventory", userId), JSONstringify(written)))

saveInventoryItem(st, userId, item, date) ==
    IF ~readable(st, "inventory", userId) THEN Throw(st)
    ELSE LET items == getInventoryItems(st, userId, "")
             existingIndex == findIndex(items, item.id)
             written == IF existingIndex >= 0
                        THEN replaceAt(items, existingIndex,
                                       [item EXCEPT !.updatedAt = date])
                        ELSE push(items, item)
         IN  Ok(setItem(st, getKey("inventory", userId), JSONstringify(written)))

\* deleteInventoryItem that rejects when no item has the id
deleteInventoryItemStrict(st, userId, itemId) ==
    IF ~readable(st, "inventory", userId) THEN Throw(st)
    ELSE IF findIndex(readAll(st, "inventory", userId), itemId) < 0 THEN Throw(st)
    ELSE Ok(setItem(st, getKey("inventory", userId),
                    JSONstringify(filterOutId(readAll(st, "inventory", userId), itemId))))

deleteInventoryItem(st, userId, itemId) ==
    IF ~readable(st, "inventory", userId) THEN Throw(st)
    ELSE LET items == getInventoryItems(st, userId, "")
             filtered == filterOutId(items, itemId)
         IN  Ok(setItem(st, getKey("inventory", userId), JSONstringify(filtered)))

\* reorderThreshold || 0
orZero(x) == IF x = Undefined THEN 0 ELSE x

\* the getStats filter without || 0
statsLowStockNoDefault(item) ==
    item.reorderThreshold # Undefined /\ item.quantity <= item.reorderThreshold

\* Number(item.quantity) <= Number(item.reorderThreshold || 0)
statsLowStock(item) == item.quantity <= orZero(item.reorderThreshold)

getStats(st, userId) ==
    LET images == getImages(st, userId)
        zones == getZones(st, userId, "")
        items == getInventoryItems(st, userId, "")
        lowStockItems == SelectSeq(items, statsLowStock)
    IN  [totalImages |-> Len(images),
         totalZones |-> Len(zones),
         totalItems |-> Len(items),
         lowStockItems |-> Len(lowStockItems),
         reorderSuggestions |-> Len(lowStockItems)]

-----------------------------------------------------------------------------
(* History bookkeeping *)

NoOp == [op |-> "none", userId |-> "", id |-> "", again |-> FALSE,
         threw |-> FALSE, removed |-> 0]

Op(op, userId, id, threw, removed) ==
    [op |-> op, userId |-> userId, id |-> id,
     again |-> (lastOp.op = op /\ lastOp.userId = userId /\ lastOp.id = id),
     threw |-> threw, removed |-> removed]

remember(saved, table, userId, rec, date) ==
    [k \in DOMAIN saved \cup {<<table, userId, rec.id>>} |->
        IF k = <<table, userId, rec.id>>
        THEN LET over == table = "inventory" /\ k \in DOMAIN saved
             IN  [rec |-> rec, over |-> over, at |-> IF over THEN date ELSE 0]
        ELSE saved[k]]

\* how many records a table of a user holds; none can be counted when its
\* text does not parse
count(st, table, userId) ==
    IF readable(st, table, userId) THEN Len(readAll(st, table, userId)) ELSE 0

forget(saved, keys) == [k \in DOMAIN saved \ keys |-> saved[k]]

\* the items a delete of zone zoneId counts as deleted
dependents(saved, userId, zoneId) ==
    {k \in DOMAIN saved :
        k[1] = "inventory" /\ k[2] = userId /\ saved[k].rec.zoneId = zoneId}

-----------------------------------------------------------------------------
(* The store's operations as steps; each call runs to completion *)

SaveImage(userId, image) ==
    LET r == saveImage(storage, userId, image)
    IN  /\ storage' = r.st
        /\ lastOp' = Op("saveImage", userId, image.id, r.threw, 0)
        /\ lastSaved' = IF r.threw THEN lastSaved
                        ELSE remember(lastSaved, "images", userId, image, now)
        /\ UNCHANGED <<now, appVars, pageVars>>

DeleteImage(userId, imageId) ==
    LET r == deleteImage(storage, userId, imageId)
    IN  /\ storage' = r.st
        /\ lastOp' = Op("deleteImage", userId, imageId, r.threw,
                        count(storage, "images", userId) - count(r.st, "images", userId))
        /\ lastSaved' = IF r.threw THEN lastSaved
                        ELSE forget(lastSaved, {<<"images", userId, imageId>>})
        /\ UNCHANGED <<now, appVars, pageVars>>

SaveZone(userId, zone) ==
    LET r == saveZone(storage, userId, zone)
    IN  /\ storage' = r.st
        /\ lastOp' = Op("saveZone", userId, zone.id, r.threw, 0)
        /\ lastSaved' = IF r.threw THEN lastSaved
                        ELSE remember(lastSaved, "zones", userId, zone, now)
        /\ UNCHANGED <<now, appVars, pageVars>>

DeleteZone(userId, zoneId) ==
    LET r == deleteZone(storage, userId, zoneId)
    IN  /\ storage' = r.st
        /\ lastOp' = Op("deleteZone", userId, zoneId, r.threw,
                        count(storage, "inventory", userId)
                          - count(r.st, "inventory", userId))
        /\ lastSaved' = IF r.threw THEN lastSaved
                        ELSE forget(lastSaved,
                                    {<<"zones", userId, zoneId>>}
                                      \cup dependents(lastSaved, userId, zoneId))
        /\ UNCHANGED <<now, appVars, pageVars>>

SaveInventoryItem(userId, item) ==
    LET r == saveInventoryItem(storage, userId, item, now)
    IN  /\ storage' = r.st
        /\ lastOp' = Op("saveInventoryItem", userId, item.id, r.threw, 0)
        /\ lastSaved' = IF r.threw THEN lastSaved
                        ELSE remember(lastSaved, "inventory", userId, item, now)
        /\ UNCHANGED <<now, appVars, pageVars>>

DeleteInventoryItem(userId, itemId) ==
    LET r == deleteInventoryItem(storage, userId, itemId)
    IN  /\ storage' = r.st
        /\ lastOp' = Op("deleteInventoryItem", userId, itemId, r.threw,
                        count(storage, "inventory", userId)
                          - count(r.st, "inventory", userId))
        /\ lastSaved' = IF r.threw THEN lastSaved
                        ELSE forget(lastSaved, {<<"inventory", userId, itemId>>})
        /\ UNCHANGED <<now, appVars, pageVars>>

\* time passes between calls
Tick ==
    /\ now < MaxTime
    /\ now' = now + 1
    /\ UNCHANGED <<storage, lastOp, lastSaved, appVars, pageVars>>

StoreInit ==
    /\ storage = <<>>
    /\ now = 1
    /\ lastOp = NoOp
    /\ lastSaved = <<>>

-----------------------------------------------------------------------------
(* The records behind blink.db and the mounted page, before any page runs *)

NoRemote == [images |-> <<>>, zones |-> <<>>, inventoryItems |-> <<>>]

ZeroStats ==
    [totalImages |-> 0, totalZones |-> 0, totalItems |-> 0, lowStockItems |-> 0,
     reorderSuggestions |-> 0]

\* the useState initial values of the page components; name "none": no page yet
NoPage ==
    [name |-> "none", stats |-> ZeroStats, images |-> <<>>, zones |-> <<>>,
     items |-> <<>>, reorderItems |-> <<>>, selectedImage |-> "",
     isDrawing |-> FALSE, currentZone |-> Null, editingZone |-> "",
     uploading |-> FALSE]

NoPending == <<>>

NoCall ==
    [page |-> "none", handler |-> "none", available |-> TRUE, calls |-> {},
     id |-> "", ok |-> TRUE]

PagesIdle ==
    /\ remote = NoRemote
    /\ page = NoPage
    /\ lastCall = NoCall
    /\ pending = NoPending

-----------------------------------------------------------------------------
(* App: authentication state and the availability detector *)

NoUser == [id |-> "", ref |-> 0]

\* user objects the auth client may hand over: two users, and for each two
\* distinct objects (the same user delivered again as a new object)
UserObjects == [id : Users, ref : {1, 2}]

Messages ==
    {"", "permission denied", "Database for project abc is not set up",
     "relation images not found", "PGRST116: no rows", "Not Found",
     "maximum database count reached", "database for project abc is missing"}

Codes == {"", "NETWORK_ERROR", "SQL_EXECUTION_ERROR", "AUTH_ERROR"}

Statuses == {0, 400, 401, 404, 500}

\* what a rejected probe carries: error?.message || '', error?.code || '',
\* error?.status || 0
ProbeErrors == [message : Messages, code : Codes, status : Statuses]

NoError == [message |-> "", code |-> "", status |-> 0]

ProbeOutcomes ==
    {[ok |-> TRUE, error |-> NoError]} \cup {[ok |-> FALSE, error |-> e] : e \in ProbeErrors}

\* String.prototype.includes
includes(str, sub) ==
    \E i \in 1..(Len(str) - Len(sub) + 1) : SubSeq(str, i, i + Len(sub) - 1) = sub

\* the test without the 'not found', PGRST116 and status 400 patterns
isDatabaseMissingNarrow(error) ==
    \/ includes(error.message, "Database for project")
    \/ includes(error.message, "maximum database count")
    \/ error.code = "NETWORK_ERROR"
    \/ error.code = "SQL_EXECUTION_ERROR"
    \/ error.status = 404

\* the test of the catch block of checkDatabaseAvailability
isDatabaseMissing(error) ==
    \/ includes(error.message, "Database for project")
    \/ includes(error.message, "not found")
    \/ includes(error.message, "PGRST116")
    \/ includes(error.message, "maximum database count")
    \/ error.code = "NETWORK_ERROR"
    \/ error.code = "SQL_EXECUTION_ERROR"
    \/ error.status = 404
    \/ error.status = 400

NoProbes == [p \in {} |-> 0]

inFlight(ps) ==
    LET RECURSIVE sum(_)
        sum(keys) == IF keys = {} THEN 0
                     ELSE LET k == CHOOSE x \in keys : TRUE
                          IN  ps[k] + sum(keys \ {k})
    IN  sum(DOMAIN ps)

addProbe(ps, p) ==
    [k \in DOMAIN ps \cup {p} |->
        IF k = p THEN (IF p \in DOMAIN ps THEN ps[p] + 1 ELSE 1) ELSE ps[k]]

removeProbe(ps, p) ==
    IF ps[p] = 1 THEN [k \in DOMAIN ps \ {p} |-> ps[k]]
    ELSE [ps EXCEPT ![p] = ps[p] - 1]

\* checkDatabaseAvailability() as built by the render in which user is u:
\* returns at once without a user, else sends the probe
checkDatabaseAvailability(ps, u, cause) ==
    IF u = NoUser THEN ps
    ELSE addProbe(ps, [userId |-> u.id, cause |-> cause])

\* the effect on [user, loading, checkDatabaseAvailability]: it runs again when
\* a dependency changed (the callback changes with user), and probes when a
\* user is there and loading is over
probeEffect(ps, oldUser, oldLoading, newUser, newLoading) ==
    IF (newUser # oldUser \/ newLoading # oldLoading)
         /\ newUser # NoUser /\ ~newLoading
    THEN checkDatabaseAvailability(ps, newUser, "effect")
    ELSE ps

\* what App renders
showsLoadingScreen == loading \/ (user # NoUser /\ ~databaseChecked)

showsSignIn == ~showsLoadingScreen /\ user = NoUser

rendersPage == ~showsLoadingScreen /\ user # NoUser

AppInit ==
    /\ user = NoUser
    /\ loading = TRUE
    /\ databaseError = FALSE
    /\ databaseChecked = FALSE
    /\ probes = NoProbes
    /\ lastEvent = [type |-> "mount", cause |-> "",
                    outcome |-> [ok |-> TRUE, error |-> NoError]]

\* cause: what started the probe that settled ("" for the other events)
Event(type, cause, outcome) == [type |-> type, cause |-> cause, outcome |-> outcome]

NoOutcome == [ok |-> TRUE, error |-> NoError]

\* blink.auth.onAuthStateChanged delivers a state; the render that follows runs
\* the probe effect
AuthStateChanged(stateUser, isLoading) ==
    /\ inFlight(probeEffect(probes, user, loading, stateUser, isLoading)) <= MaxProbes
    /\ user' = stateUser
    /\ loading' = isLoading
    /\ probes' = probeEffect(probes, user, loading, stateUser, isLoading)
    /\ lastEvent' = Event("auth", "", NoOutcome)
    /\ UNCHANGED <<databaseError, databaseChecked, storeVars, pageVars>>

\* the probe without its finally block: databaseChecked is set on success only
settlesWithoutFinally(p, outcome) ==
    /\ p \in DOMAIN probes
    /\ probes' = removeProbe(probes, p)
    /\ databaseError' = IF outcome.ok THEN FALSE ELSE isDatabaseMissing(outcome.error)
    /\ databaseChecked' = (outcome.ok \/ databaseChecked)
    /\ lastEvent' = Event("settled", p.cause, outcome)
    /\ UNCHANGED <<user, loading, storeVars>>

\* the gateway answers a probe: try / catch / finally of checkDatabaseAvailability
settles(p, outcome) ==
    /\ p \in DOMAIN probes
    /\ probes' = removeProbe(probes, p)
    /\ databaseError' = IF outcome.ok THEN FALSE ELSE isDatabaseMissing(outcome.error)
    /\ databaseChecked' = TRUE
    /\ lastEvent' = Event("settled", p.cause, outcome)
    /\ UNCHANGED <<user, loading, storeVars>>

\* a probe settles while App shows no page
ProbeSettles(p, outcome) ==
    /\ settles(p, outcome)
    /\ UNCHANGED pageVars

\* handleDatabaseRetry. App defines it and hands it to no element
\* (DatabaseSetupNotice is imported, never rendered); it is kept as a step that
\* may happen while a page is shown, the only one that resets databaseChecked
HandleDatabaseRetry ==
    /\ rendersPage
    /\ inFlight(probes) < MaxProbes
    /\ databaseChecked' = FALSE
    /\ databaseError' = FALSE
    /\ probes' = checkDatabaseAvailability(probes, user, "retry")
    /\ lastEvent' = Event("retry", "", NoOutcome)
    /\ UNCHANGED <<user, loading, storeVars, pageVars>>

AppNext ==
    \/ \E u \in UserObjects \cup {NoUser}, isLoading \in BOOLEAN :
          AuthStateChanged(u, isLoading)
    \/ \E p \in DOMAIN probes, outcome \in ProbeOutcomes : ProbeSettles(p, outcome)
    \/ HandleDatabaseRetry

\* the program when it starts: nothing stored, App mounted, no page yet
Init == StoreInit /\ AppInit /\ PagesIdle

SpecApp == Init /\ [][AppNext]_vars

-----------------------------------------------------------------------------
(* Spec: one user's store, calls issued one after the other. Ids are the      *)
(* non-empty strings their writers generate; a caller may pass a record it   *)
(* built earlier, so the updatedAt it passes (0) is before the clock (1).    *)

StoreUser == "u1"

ImageInputs(userId) ==
    {KitchenImage(id, name, "url", userId, 0) :
        id \in ImageIds, name \in {"fridge", "pantry"}}

ZoneInputs(userId) ==
    {Zone(id, imageId, "shelf", 40, 40, userId, 0) :
        id \in ZoneIds, imageId \in ImageIds}

ItemInputs(userId) ==
    {InventoryItem(id, zoneId, "milk", 2, 5, userId, 0, 0) :
        id \in ItemIds, zoneId \in ZoneIds}


\* number of records in the storage, all keys together
held(st) ==
    LET RECURSIVE sum(_)
        sum(keys) ==
            IF keys = {} THEN 0
            ELSE LET k == CHOOSE x \in keys : TRUE
                 IN  (IF JSONparses(st[k]) THEN Len(JSONparse(st[k])) ELSE 0)
                       + sum(keys \ {k})
    IN  sum(DOMAIN st)

\* a save is within the bound: it replaces a record or there is room for one more
fits(table, userId, id) ==
    \/ /\ readable(storage, table, userId)
       /\ findIndex(readAll(storage, table, userId), id) >= 0
    \/ held(storage) < MaxRecords

Next ==
    \/ \E image \in ImageInputs(StoreUser) :
          fits("images", StoreUser, image.id) /\ SaveImage(StoreUser, image)
    \/ \E imageId \in ImageIds : DeleteImage(StoreUser, imageId)
    \/ \E zone \in ZoneInputs(StoreUser) :
          fits("zones", StoreUser, zone.id) /\ SaveZone(StoreUser, zone)
    \/ \E zoneId \in ZoneIds : DeleteZone(StoreUser, zoneId)
    \/ \E item \in ItemInputs(StoreUser) :
          fits("inventory", StoreUser, item.id) /\ SaveInventoryItem(StoreUser, item)
    \/ \E itemId \in ItemIds : DeleteInventoryItem(StoreUser, itemId)

Spec == Init /\ [][Next]_vars

-----------------------------------------------------------------------------
(* SpecIso: two users on the same localStorage, using the same record ids,   *)
(* while time passes                                                         *)

IsoImageInputs(userId) == {KitchenImage("img1", "fridge", "url", userId, 0)}

IsoZoneInputs(userId) == {Zone("z1", "img1", "shelf", 40, 40, userId, 0)}

IsoItemInputs(userId) == {InventoryItem("i1", "z1", "milk", 2, 5, userId, 0, 0)}

IsoNext ==
    \/ \E u \in Users : \E image \in IsoImageInputs(u) :
          fits("images", u, image.id) /\ SaveImage(u, image)
    \/ \E u \in Users : DeleteImage(u, "img1")
    \/ \E u \in Users : \E zone \in IsoZoneInputs(u) :
          fits("zones", u, zone.id) /\ SaveZone(u, zone)
    \/ \E u \in Users : DeleteZone(u, "z1")
    \/ \E u \in Users : \E item \in IsoItemInputs(u) :
          fits("inventory", u, item.id) /\ SaveInventoryItem(u, item)
    \/ \E u \in Users : DeleteInventoryItem(u, "i1")
    \/ Tick

SpecIso == Init /\ [][IsoNext]_vars

\* user ids a key may be built from, some of them shaped like parts of a key
KeyUserIds == Users \cup {"", "_", "u", "u1_", "zones_u1", "images", "u1_zones"}

savedUnder(userId, table) ==
    {k \in DOMAIN lastSaved : k[1] = table /\ k[2] = userId}

\* every record a list returns for userId, and every record getStats counts for
\* userId, was saved under userId
OwnRecordsOnly ==
    \A u \in Users :
        /\ \A t \in Tables : \A rec \in Range(readAll(storage, t, u)) :
              <<t, u, rec.id>> \in DOMAIN lastSaved /\ rec.userId = u
        /\ getStats(storage, u).totalImages = Cardinality(savedUnder(u, "images"))
        /\ getStats(storage, u).totalZones = Cardinality(savedUnder(u, "zones"))
        /\ getStats(storage, u).totalItems = Cardinality(savedUnder(u, "inventory"))

DistinctKeys ==
    \A t1 \in Tables, t2 \in Tables : \A u1 \in KeyUserIds, u2 \in KeyUserIds :
        <<t1, u1>> # <<t2, u2>> => getKey(t1, u1) # getKey(t2, u2)

\* no step of a call made with one user id changes what is stored for another
OthersUntouched ==
    \A v \in Users :
        v # lastOp'.userId =>
            \A t \in Tables :
                getItem(storage', getKey(t, v)) = getItem(storage, getKey(t, v))

\* C8: no operation called with u changes a collection of another user v, no
\* list or stats call for u returns or counts a record saved under v, and
\* distinct (collection, userId) pairs have distinct storage keys.
C8_UserIsolation ==
    /\ [](OwnRecordsOnly /\ DistinctKeys)
    /\ [][OthersUntouched]_vars

\* u2 deleted its img1 while u1 holds a record with the same id
C8_Witness ==
    /\ lastOp.op = "deleteImage" /\ lastOp.userId = "u2" /\ lastOp.removed = 1
    /\ getImages(storage, "u1") # <<>>
    /\ getImages(storage, "u2") = <<>>
    /\ getInventoryItems(storage, "u2", "") # <<>>

-----------------------------------------------------------------------------
(* The remote record gateway: blink.db.<kind>.list / create / update / delete *)
(* as its interface contract gives them. delete removes the one record and   *)
(* nothing else.                                                             *)

\* lexicographic rank of the names the pages give to zones
NameRank(name) == IF name = "bin" THEN 1 ELSE IF name = "shelf" THEN 2 ELSE 0

key(rec, field) == IF field = "name" THEN NameRank(rec.name) ELSE rec[field]

precedes(a, b, field, dir) ==
    IF dir = "desc" THEN key(a, field) > key(b, field)
    ELSE key(a, field) < key(b, field)

\* a stable sort: orderBy of the gateway, and the pages'
\* sort((a, b) => new Date(b.createdAt) - new Date(a.createdAt)) with "desc"
RECURSIVE orderBy(_, _, _)
orderBy(arr, field, dir) ==
    IF arr = <<>> THEN <<>>
    ELSE LET rest == orderBy(Tail(arr), field, dir)
             k == Cardinality({i \in 1..Len(rest) :
                                 precedes(rest[i], Head(arr), field, dir)})
         IN  SubSeq(rest, 1, k) \o <<Head(arr)>> \o SubSeq(rest, k + 1, Len(rest))

\* list({ where: { [field]: value } })
remoteList(r, kind, field, value) ==
    SelectSeq(r[kind], LAMBDA rec : rec[field] = value)

remoteCreate(r, kind, rec) == [r EXCEPT ![kind] = Append(r[kind], rec)]

\* { ...rec, ...fields }
merge(rec, fields) ==
    [k \in DOMAIN rec \cup DOMAIN fields |->
        IF k \in DOMAIN fields THEN fields[k] ELSE rec[k]]

remoteUpdate(r, kind, id, fields) ==
    [r EXCEPT ![kind] =
        [i \in 1..Len(r[kind]) |->
            IF r[kind][i].id = id THEN merge(r[kind][i], fields) ELSE r[kind][i]]]

remoteDelete(r, kind, id) == [r EXCEPT ![kind] = filterOutId(r[kind], id)]

-----------------------------------------------------------------------------
(* The pages. A handler is an operator from the component state, the two     *)
(* backends and the databaseAvailable prop to the component state after,      *)
(* with the backend calls it issued; ok is whether the gateway resolved the  *)
(* remote calls it awaited.                                                  *)

Pages == {"dashboard", "workspace", "zones", "inventory", "reorder"}

\* the prop App passes to every page: databaseAvailable={!databaseError}
\* a prop that says available whatever the verdict is
alwaysAvailable == TRUE

databaseAvailable == ~databaseError

\* blink.auth.me() of the signed-in session
me == user.id

Call(backend, entity, op) == [backend |-> backend, entity |-> entity, op |-> op]

Done(pg, calls, ok) == [page |-> pg, calls |-> calls, ok |-> ok]

\* a trim that keeps the white space
noTrim(str) == str

\* String.prototype.trim on the names typed
RECURSIVE trim(_)
trim(str) ==
    IF str = "" THEN ""
    ELSE IF SubSeq(str, 1, 1) = " " THEN trim(SubSeq(str, 2, Len(str)))
    ELSE IF SubSeq(str, Len(str), Len(str)) = " " THEN trim(SubSeq(str, 1, Len(str) - 1))
    ELSE str

\* the stats Dashboard computes from three listed collections
\* the Dashboard filter with < in place of <=
dashboardLowStockStrict(item) ==
    item.quantity < (IF item.reorderThreshold = Undefined THEN 0
                     ELSE item.reorderThreshold)

\* Dashboard: Number(item.quantity) <= Number(item.reorderThreshold || 0)
dashboardLowStock(item) ==
    item.quantity <= (IF item.reorderThreshold = Undefined THEN 0
                      ELSE item.reorderThreshold)

dashboardStats(images, zones, items) ==
    LET lowStockItems == SelectSeq(items, dashboardLowStock)
    IN  [totalImages |-> Len(images),
         totalZones |-> Len(zones),
         totalItems |-> Len(items),
         lowStockItems |-> Len(lowStockItems),
         reorderSuggestions |-> Len(lowStockItems)]

Dashboard_loadDashboardStats(pg, st, r, available, ok) ==
    IF available
    THEN IF ok
         THEN Done([pg EXCEPT !.stats =
                       dashboardStats(remoteList(r, "images", "userId", me),
                                      remoteList(r, "zones", "userId", me),
                                      remoteList(r, "inventoryItems", "userId", me))],
                   {Call("remote", "images", "list"), Call("remote", "zones", "list"),
                    Call("remote", "inventoryItems", "list")}, TRUE)
         ELSE Done([pg EXCEPT !.stats = ZeroStats],
                   {Call("remote", "images", "list")}, FALSE)
    ELSE LET calls == {Call("local", "images", "list"), Call("local", "zones", "list"),
                       Call("local", "inventoryItems", "list")}
         IN  IF /\ readable(st, "images", me)
                /\ readable(st, "zones", me)
                /\ readable(st, "inventory", me)
             THEN Done([pg EXCEPT !.stats = getStats(st, me)], calls, TRUE)
             ELSE Done([pg EXCEPT !.stats = ZeroStats], calls, FALSE)

\* loadImages that takes text it cannot parse for an empty collection and
\* reports no failure
ImageWorkspace_loadImagesLenient(pg, st, r, available, ok) ==
    IF available
    THEN Done([pg EXCEPT !.images = <<>>], {Call("remote", "images", "list")}, ok)
    ELSE Done([pg EXCEPT !.images =
                  IF readable(st, "images", me)
                  THEN orderBy(getImages(st, me), "createdAt", "desc") ELSE <<>>],
              {Call("local", "images", "list")}, TRUE)

ImageWorkspace_loadImages(pg, st, r, available, ok) ==
    IF available
    THEN IF ok
         THEN Done([pg EXCEPT !.images =
                       orderBy(remoteList(r, "images", "userId", me), "createdAt", "desc")],
                   {Call("remote", "images", "list")}, TRUE)
         ELSE Done([pg EXCEPT !.images = <<>>], {Call("remote", "images", "list")}, FALSE)
    ELSE IF readable(st, "images", me)
         THEN Done([pg EXCEPT !.images = orderBy(getImages(st, me), "createdAt", "desc")],
                   {Call("local", "images", "list")}, TRUE)
         ELSE Done([pg EXCEPT !.images = <<>>], {Call("local", "images", "list")}, FALSE)

ZoneManagement_loadData(pg, st, r, available, ok) ==
    IF available
    THEN LET calls == {Call("remote", "zones", "list"), Call("remote", "images", "list")}
         IN  IF ok
             THEN Done([pg EXCEPT
                          !.zones = orderBy(remoteList(r, "zones", "userId", me),
                                            "createdAt", "desc"),
                          !.images = orderBy(remoteList(r, "images", "userId", me),
                                             "createdAt", "desc")],
                       calls, TRUE)
             ELSE Done([pg EXCEPT !.zones = <<>>, !.images = <<>>], calls, FALSE)
    ELSE LET calls == {Call("local", "zones", "list"), Call("local", "images", "list")}
         IN  IF readable(st, "zones", me) /\ readable(st, "images", me)
             THEN Done([pg EXCEPT
                          !.zones = orderBy(getZones(st, me, ""), "createdAt", "desc"),
                          !.images = orderBy(getImages(st, me), "createdAt", "desc")],
                       calls, TRUE)
             ELSE Done([pg EXCEPT !.zones = <<>>, !.images = <<>>], calls, FALSE)

InventoryItems_loadData(pg, st, r, available, ok) ==
    IF ~available
    THEN Done([pg EXCEPT !.items = <<>>, !.zones = <<>>], {}, TRUE)
    ELSE LET calls == {Call("remote", "inventoryItems", "list"),
                       Call("remote", "zones", "list")}
         IN  IF ok
             THEN Done([pg EXCEPT
                          !.items = orderBy(remoteList(r, "inventoryItems", "userId", me),
                                            "updatedAt", "desc"),
                          !.zones = orderBy(remoteList(r, "zones", "userId", me),
                                            "name", "asc")],
                       calls, TRUE)
             ELSE Done([pg EXCEPT !.items = <<>>, !.zones = <<>>], calls, FALSE)

\* InventoryItems.isLowStock: item.quantity <= item.reorderThreshold; a
\* comparison with undefined is false
isLowStock(item) ==
    IF item.reorderThreshold = Undefined THEN FALSE
    ELSE item.quantity <= item.reorderThreshold

\* item.quantity <= item.reorderThreshold; a comparison with undefined is false
reorderLowStock(item) ==
    item.reorderThreshold # Undefined /\ item.quantity <= item.reorderThreshold

\* Math.min
min(a, b) == IF a <= b THEN a ELSE b

\* Math.max
max(a, b) == IF a >= b THEN a ELSE b

\* zonesData.find(z => z.id === item.zoneId)?.name || 'Unknown Zone'
zoneNameOf(zones, zoneId) ==
    LET index == findIndex(zones, zoneId)
    IN  IF index >= 0 /\ zones[index + 1].name # "" THEN zones[index + 1].name
        ELSE "Unknown Zone"

reorderItem(item, zones) ==
    merge(item, [zoneName |-> zoneNameOf(zones, item.zoneId),
                 suggestedQuantity |-> max(item.reorderThreshold * 2,
                                           item.reorderThreshold + 10),
                 selected |-> TRUE])

\* loadData that builds a candidate for every loaded item
ReorderCenter_loadDataUnfiltered(pg, st, r, available, ok) ==
    IF ~available \/ ~ok
    THEN Done([pg EXCEPT !.items = <<>>, !.zones = <<>>, !.reorderItems = <<>>], {}, ~available)
    ELSE LET itemsData == orderBy(remoteList(r, "inventoryItems", "userId", me),
                                  "updatedAt", "desc")
             zonesData == remoteList(r, "zones", "userId", me)
         IN  Done([pg EXCEPT
                     !.items = itemsData,
                     !.zones = zonesData,
                     !.reorderItems =
                         [i \in 1..Len(itemsData) |-> reorderItem(itemsData[i], zonesData)]],
                  {Call("remote", "inventoryItems", "list"),
                   Call("remote", "zones", "list")}, TRUE)

ReorderCenter_loadData(pg, st, r, available, ok) ==
    IF ~available
    THEN Done([pg EXCEPT !.items = <<>>, !.zones = <<>>, !.reorderItems = <<>>], {}, TRUE)
    ELSE LET calls == {Call("remote", "inventoryItems", "list"),
                       Call("remote", "zones", "list")}
             itemsData == orderBy(remoteList(r, "inventoryItems", "userId", me),
                                  "updatedAt", "desc")
             zonesData == remoteList(r, "zones", "userId", me)
             lowStockItems == SelectSeq(itemsData, reorderLowStock)
         IN  IF ok
             THEN Done([pg EXCEPT
                          !.items = itemsData,
                          !.zones = zonesData,
                          !.reorderItems =
                              [i \in 1..Len(lowStockItems) |->
                                  reorderItem(lowStockItems[i], zonesData)]],
                       calls, TRUE)
             ELSE Done([pg EXCEPT !.items = <<>>, !.zones = <<>>, !.reorderItems = <<>>],
                       calls, FALSE)

\* the effect a page runs when it mounts
mount(name, st, r, available, ok) ==
    LET pg == [NoPage EXCEPT !.name = name]
    IN  CASE name = "dashboard" -> Dashboard_loadDashboardStats(pg, st, r, available, ok)
          [] name = "workspace" -> ImageWorkspace_loadImages(pg, st, r, available, ok)
          [] name = "zones" -> ZoneManagement_loadData(pg, st, r, available, ok)
          [] name = "inventory" -> InventoryItems_loadData(pg, st, r, available, ok)
          [] name = "reorder" -> ReorderCenter_loadData(pg, st, r, available, ok)

Wrote(pg, st, r, calls, ok) ==
    [page |-> pg, st |-> st, r |-> r, calls |-> calls, ok |-> ok]

\* file.name.split('.')[0]
RECURSIVE beforeDot(_)
beforeDot(str) ==
    IF str = "" \/ SubSeq(str, 1, 1) = "." THEN ""
    ELSE SubSeq(str, 1, 1) \o beforeDot(SubSeq(str, 2, Len(str)))

ImageWorkspace_handleFileUpload(pg, st, r, available, fileName, uploaded, ok, date) ==
    LET upload == Call("remote", "files", "upload")
        imageRecord == KitchenImage("img_" \o ToString(date), beforeDot(fileName),
                                    "publicUrl", me, date)
    IN  IF ~uploaded THEN Wrote(pg, st, r, {upload}, FALSE)
        ELSE IF available
        THEN LET calls == {upload, Call("remote", "images", "create")}
             IN  IF ok
                 THEN Wrote([pg EXCEPT !.images = unshift(pg.images, imageRecord)],
                            st, remoteCreate(r, "images", imageRecord), calls, TRUE)
                 ELSE Wrote(pg, st, r, calls, FALSE)
        ELSE LET calls == {upload, Call("local", "images", "create")}
                 w == saveImage(st, me, imageRecord)
             IN  IF ~w.threw
                 THEN Wrote([pg EXCEPT !.images = unshift(pg.images, imageRecord)],
                            w.st, r, calls, TRUE)
                 ELSE Wrote(pg, st, r, calls, FALSE)

\* zonesWithColors: what the workspace keeps of a zone
zoneView(zone) ==
    [id |-> zone.id, name |-> zone.name, width |-> zone.width, height |-> zone.height]

ImageWorkspace_selectImage(pg, st, r, available, image, ok) ==
    LET shown(zones) ==
            [pg EXCEPT !.selectedImage = image.id,
                       !.zones = [i \in 1..Len(zones) |-> zoneView(zones[i])]]
    IN  IF available
        THEN IF ok
             THEN Done(shown(remoteList(r, "zones", "imageId", image.id)),
                       {Call("remote", "zones", "list")}, TRUE)
             ELSE Done(shown(<<>>), {Call("remote", "zones", "list")}, FALSE)
        ELSE IF readable(st, "zones", me)
             THEN Done(shown(getZones(st, me, image.id)),
                       {Call("local", "zones", "list")}, TRUE)
             ELSE Done(shown(<<>>), {Call("local", "zones", "list")}, FALSE)

\* startDrawing without the test of editingZone
ImageWorkspace_startDrawingWhileNaming(pg) ==
    IF pg.selectedImage = "" THEN pg
    ELSE [pg EXCEPT !.isDrawing = TRUE, !.currentZone = [width |-> 0, height |-> 0]]

ImageWorkspace_startDrawing(pg) ==
    IF pg.selectedImage = "" \/ pg.editingZone # "" THEN pg
    ELSE [pg EXCEPT !.isDrawing = TRUE, !.currentZone = [width |-> 0, height |-> 0]]

ImageWorkspace_drawZone(pg, width, height) ==
    IF ~pg.isDrawing \/ pg.currentZone = Null THEN pg
    ELSE [pg EXCEPT !.currentZone = [width |-> width, height |-> height]]

\* Math.abs
abs(x) == IF x < 0 THEN -x ELSE x

ImageWorkspace_finishDrawing(pg, date) ==
    IF ~pg.isDrawing \/ pg.currentZone = Null \/ pg.selectedImage = "" THEN pg
    ELSE IF abs(pg.currentZone.width) < 20 \/ abs(pg.currentZone.height) < 20
    THEN [pg EXCEPT !.isDrawing = FALSE, !.currentZone = Null]
    ELSE [pg EXCEPT !.editingZone = "zone_" \o ToString(date), !.isDrawing = FALSE]

ImageWorkspace_saveZone(pg, st, r, available, zoneName, ok, date) ==
    IF pg.currentZone = Null \/ pg.selectedImage = "" \/ trim(zoneName) = ""
    THEN Wrote(pg, st, r, {}, TRUE)
    ELSE LET selectedImage == pg.images[findIndex(pg.images, pg.selectedImage) + 1]
             zoneRecord == Zone(IF pg.editingZone # "" THEN pg.editingZone
                                ELSE "zone_" \o ToString(date),
                                selectedImage.id, trim(zoneName),
                                pg.currentZone.width, pg.currentZone.height,
                                selectedImage.userId, date)
             saved == [pg EXCEPT !.zones = Append(pg.zones, zoneView(zoneRecord)),
                                 !.currentZone = Null, !.editingZone = ""]
         IN  IF available
             THEN IF ok
                  THEN Wrote(saved, st, remoteCreate(r, "zones", zoneRecord),
                             {Call("remote", "zones", "create")}, TRUE)
                  ELSE Wrote(pg, st, r, {Call("remote", "zones", "create")}, FALSE)
             ELSE LET w == saveZone(st, me, zoneRecord)
                  IN  IF ~w.threw
                      THEN Wrote(saved, w.st, r, {Call("local", "zones", "create")}, TRUE)
                      ELSE Wrote(pg, st, r, {Call("local", "zones", "create")}, FALSE)

ImageWorkspace_cancelZone(pg) ==
    [pg EXCEPT !.currentZone = Null, !.editingZone = "", !.isDrawing = FALSE]

ImageWorkspace_deleteZone(pg, st, r, available, zoneId, ok) ==
    LET deleted == [pg EXCEPT !.zones = filterOutId(pg.zones, zoneId)]
    IN  IF available
        THEN IF ok
             THEN Wrote(deleted, st, remoteDelete(r, "zones", zoneId),
                        {Call("remote", "zones", "delete")}, TRUE)
             ELSE Wrote(pg, st, r, {Call("remote", "zones", "delete")}, FALSE)
        ELSE LET w == deleteZone(st, me, zoneId)
             IN  IF ~w.threw
                 THEN Wrote(deleted, w.st, r, {Call("local", "zones", "delete")}, TRUE)
                 ELSE Wrote(pg, w.st, r, {Call("local", "zones", "delete")}, FALSE)

ZoneManagement_deleteZone(pg, st, r, zoneId, ok) ==
    IF ok
    THEN Wrote([pg EXCEPT !.zones = filterOutId(pg.zones, zoneId)],
               st, remoteDelete(r, "zones", zoneId),
               {Call("remote", "zones", "delete")}, TRUE)
    ELSE Wrote(pg, st, r, {Call("remote", "zones", "delete")}, FALSE)

\* editingItem is Null or the listed item whose dialog is open; form holds the
\* values of formData after Number(...) || 0
InventoryItems_handleSubmit(pg, st, r, editingItem, form, ok, date) ==
    IF trim(form.name) = "" \/ form.zoneId = "" THEN Wrote(pg, st, r, {}, TRUE)
    ELSE LET itemData == [name |-> trim(form.name), quantity |-> form.quantity,
                          unit |-> "pieces", costPerUnit |-> 0,
                          reorderThreshold |-> form.reorderThreshold, notes |-> "",
                          zoneId |-> form.zoneId, userId |-> me, updatedAt |-> date]
         IN  IF editingItem # Null
             THEN IF ok
                  THEN Wrote([pg EXCEPT !.items =
                                 [i \in 1..Len(pg.items) |->
                                     IF pg.items[i].id = editingItem.id
                                     THEN merge(pg.items[i], itemData)
                                     ELSE pg.items[i]]],
                             st, remoteUpdate(r, "inventoryItems", editingItem.id, itemData),
                             {Call("remote", "inventoryItems", "update")}, TRUE)
                  ELSE Wrote(pg, st, r, {Call("remote", "inventoryItems", "update")}, FALSE)
             ELSE LET newItem == merge([id |-> "item_" \o ToString(date),
                                        createdAt |-> date], itemData)
                  IN  IF ok
                      THEN Wrote([pg EXCEPT !.items = unshift(pg.items, newItem)],
                                 st, remoteCreate(r, "inventoryItems", newItem),
                                 {Call("remote", "inventoryItems", "create")}, TRUE)
                      ELSE Wrote(pg, st, r,
                                 {Call("remote", "inventoryItems", "create")}, FALSE)

InventoryItems_deleteItem(pg, st, r, itemId, ok) ==
    IF ok
    THEN Wrote([pg EXCEPT !.items = filterOutId(pg.items, itemId)],
               st, remoteDelete(r, "inventoryItems", itemId),
               {Call("remote", "inventoryItems", "delete")}, TRUE)
    ELSE Wrote(pg, st, r, {Call("remote", "inventoryItems", "delete")}, FALSE)

ReorderCenter_toggleItemSelection(pg, itemId) ==
    [pg EXCEPT !.reorderItems =
        [i \in 1..Len(pg.reorderItems) |->
            IF pg.reorderItems[i].id = itemId
            THEN [pg.reorderItems[i] EXCEPT !.selected = ~pg.reorderItems[i].selected]
            ELSE pg.reorderItems[i]]]

\* updateSuggestedQuantity that stores the quantity as it comes
ReorderCenter_updateSuggestedQuantityUnclamped(pg, itemId, quantity) ==
    [pg EXCEPT !.reorderItems =
        [i \in 1..Len(pg.reorderItems) |->
            IF pg.reorderItems[i].id = itemId
            THEN [pg.reorderItems[i] EXCEPT !.suggestedQuantity = quantity]
            ELSE pg.reorderItems[i]]]

\* suggestedQuantity: Math.max(0, quantity)
ReorderCenter_updateSuggestedQuantity(pg, itemId, quantity) ==
    [pg EXCEPT !.reorderItems =
        [i \in 1..Len(pg.reorderItems) |->
            IF pg.reorderItems[i].id = itemId
            THEN [pg.reorderItems[i] EXCEPT !.suggestedQuantity = max(0, quantity)]
            ELSE pg.reorderItems[i]]]

\* the updates of markAsOrdered that the gateway applied
RECURSIVE restock(_, _, _)
restock(r, items, date) ==
    IF items = <<>> THEN r
    ELSE restock(remoteUpdate(r, "inventoryItems", Head(items).id,
                              [quantity |-> Head(items).suggestedQuantity,
                               updatedAt |-> date]),
                 Tail(items), date)

\* ok: every update resolved, and loadData runs again (reloaded: its calls
\* resolved); otherwise the updates of the ids in applied went through before
\* Promise.all rejected
ReorderCenter_markAsOrdered(pg, st, r, available, ok, applied, reloaded, date) ==
    LET selectedItems == SelectSeq(pg.reorderItems, LAMBDA item : item.selected)
        calls == {Call("remote", "inventoryItems", "update")}
    IN  IF selectedItems = <<>> THEN Wrote(pg, st, r, {}, TRUE)
        ELSE IF ok
        THEN LET r1 == restock(r, selectedItems, date)
                 d == ReorderCenter_loadData(pg, st, r1, available, reloaded)
             IN  Wrote(d.page, st, r1, calls \cup d.calls, TRUE)
        ELSE Wrote(pg, st,
                   restock(r, SelectSeq(selectedItems, LAMBDA item : item.id \in applied),
                           date),
                   calls, FALSE)

-----------------------------------------------------------------------------
(* SpecPages: a signed-in session whose probe has settled, the user working  *)
(* through the pages. A handler runs to completion before the next event.    *)

\* what the user types and drags
FileNames == {"fridge.jpg"}
ZoneNames == {"", " ", " shelf"}
ItemForms(zoneIds) ==
    [name : {"", " ", "milk"}, quantity : {2}, reorderThreshold : {5}, zoneId : zoneIds \cup {""}]
DrawSizes == {<<19, 20>>, <<20, 20>>}

ids(arr) == {arr[i].id : i \in 1..Len(arr)}

records(r) == Len(r.images) + Len(r.zones) + Len(r.inventoryItems)

\* the two backends have room for one more record
room == held(storage) + records(remote) < MaxRecords

\* no record of the collection, on either backend, has the id
unused(table, kind, id) ==
    id \notin ids(readAll(storage, table, me)) \cup ids(remote[kind])

Handled(name, handler, id, d) ==
    [page |-> name, handler |-> handler, available |-> databaseAvailable,
     calls |-> d.calls, id |-> id, ok |-> d.ok]

\* a handler that reads
Read(handler, id, d) ==
    /\ page' = d.page
    /\ lastCall' = Handled(page.name, handler, id, d)
    /\ UNCHANGED <<remote, pending, storeVars, appVars>>

\* a handler that writes
Write(handler, id, d) ==
    /\ page' = d.page
    /\ storage' = d.st
    /\ remote' = d.r
    /\ lastCall' = Handled(page.name, handler, id, d)
    /\ UNCHANGED <<now, lastOp, lastSaved, pending, appVars>>

\* a handler that only sets component state
Local(handler, pg) ==
    Read(handler, "", Done(pg, {}, TRUE))

\* setCurrentPage(name): App renders the page, whose effect loads its data
Navigate(name, ok) ==
    /\ rendersPage
    /\ name # page.name
    /\ LET d == mount(name, storage, remote, databaseAvailable, ok)
       IN  /\ page' = d.page
           /\ lastCall' = Handled(name, "load", "", d)
    /\ UNCHANGED <<remote, pending, storeVars, appVars>>

HandleFileUpload(fileName, uploaded, ok) ==
    /\ rendersPage /\ page.name = "workspace"
    /\ Write("handleFileUpload", "img_" \o ToString(now),
             ImageWorkspace_handleFileUpload(page, storage, remote, databaseAvailable,
                                             fileName, uploaded, ok, now))

SelectImage(image, ok) ==
    /\ rendersPage /\ page.name = "workspace"
    /\ image \in Range(page.images)
    /\ Read("selectImage", image.id,
            ImageWorkspace_selectImage(page, storage, remote, databaseAvailable, image, ok))

\* mouse down on the canvas, which is rendered once an image is selected
StartDrawing ==
    /\ rendersPage /\ page.name = "workspace" /\ page.selectedImage # ""
    /\ Local("startDrawing", ImageWorkspace_startDrawing(page))

DrawZone(size) ==
    /\ rendersPage /\ page.name = "workspace" /\ page.selectedImage # ""
    /\ Local("drawZone", ImageWorkspace_drawZone(page, size[1], size[2]))

FinishDrawing ==
    /\ rendersPage /\ page.name = "workspace" /\ page.selectedImage # ""
    /\ Local("finishDrawing", ImageWorkspace_finishDrawing(page, now))

\* the Save button of the naming form, rendered while editingZone is set
WorkspaceSaveZone(zoneName, ok) ==
    /\ rendersPage /\ page.name = "workspace" /\ page.editingZone # ""
    /\ Write("saveZone", page.editingZone,
             ImageWorkspace_saveZone(page, storage, remote, databaseAvailable,
                                     zoneName, ok, now))

CancelZone ==
    /\ rendersPage /\ page.name = "workspace" /\ page.editingZone # ""
    /\ Local("cancelZone", ImageWorkspace_cancelZone(page))

\* the delete button of a zone listed for the selected image
WorkspaceDeleteZone(zoneId, ok) ==
    /\ rendersPage /\ page.name = "workspace"
    /\ zoneId \in ids(page.zones)
    /\ Write("deleteZone", zoneId,
             ImageWorkspace_deleteZone(page, storage, remote, databaseAvailable, zoneId, ok))

\* the delete button of a listed zone
ZonesDeleteZone(zoneId, ok) ==
    /\ rendersPage /\ page.name = "zones"
    /\ zoneId \in ids(page.zones)
    /\ Write("deleteZone", zoneId,
             ZoneManagement_deleteZone(page, storage, remote, zoneId, ok))

\* the dialog is opened for a new item (Null) or for a listed item; the zone
\* is chosen among the listed zones, or is the one the edited item has
HandleSubmit(editingItem, form, ok) ==
    /\ rendersPage /\ page.name = "inventory"
    /\ editingItem \in Range(page.items) \cup {Null}
    /\ form.zoneId \in ids(page.zones) \cup {""}
                       \cup (IF editingItem = Null THEN {} ELSE {editingItem.zoneId})
    /\ Write("handleSubmit",
             IF editingItem = Null THEN "item_" \o ToString(now) ELSE editingItem.id,
             InventoryItems_handleSubmit(page, storage, remote, editingItem, form, ok, now))

DeleteItem(itemId, ok) ==
    /\ rendersPage /\ page.name = "inventory"
    /\ itemId \in ids(page.items)
    /\ Write("deleteItem", itemId,
             InventoryItems_deleteItem(page, storage, remote, itemId, ok))

ToggleItemSelection(itemId) ==
    /\ rendersPage /\ page.name = "reorder"
    /\ itemId \in ids(page.reorderItems)
    /\ Local("toggleItemSelection", ReorderCenter_toggleItemSelection(page, itemId))

MarkAsOrdered(ok, applied, reloaded) ==
    /\ rendersPage /\ page.name = "reorder"
    /\ applied \in SUBSET ids(page.reorderItems)
    /\ ok \/ \E item \in Range(page.reorderItems) : item.selected /\ item.id \notin applied
    /\ Write("markAsOrdered", "",
             ReorderCenter_markAsOrdered(page, storage, remote, databaseAvailable,
                                         ok, applied, reloaded, now))

\* the session: the user signed in and the first probe settled, succeeding or
\* failing with a database that is not there; App shows the dashboard
PagesInit ==
    /\ StoreInit
    /\ user = [id |-> StoreUser, ref |-> 1]
    /\ loading = FALSE
    /\ databaseChecked = TRUE
    /\ probes = NoProbes
    /\ \E outcome \in {NoOutcome,
                       [ok |-> FALSE,
                        error |-> [message |-> "relation images not found",
                                   code |-> "", status |-> 0]]} :
          /\ lastEvent = Event("settled", "effect", outcome)
          /\ databaseError = (~outcome.ok /\ isDatabaseMissing(outcome.error))
    /\ remote = NoRemote
    /\ pending = NoPending
    /\ \E ok \in BOOLEAN :
          LET d == mount("dashboard", storage, remote, databaseAvailable, ok)
          IN  /\ page = d.page
              /\ lastCall = Handled("dashboard", "load", "", d)

\* two uploads, two drags and two new items do not fall in the same millisecond
PagesNext ==
    \/ \E name \in Pages, ok \in BOOLEAN : Navigate(name, ok)
    \/ \E fileName \in FileNames, uploaded \in BOOLEAN, ok \in BOOLEAN :
          /\ room /\ unused("images", "images", "img_" \o ToString(now))
          /\ HandleFileUpload(fileName, uploaded, ok)
    \/ \E image \in Range(page.images), ok \in BOOLEAN : SelectImage(image, ok)
    \/ StartDrawing
    \/ \E size \in DrawSizes : DrawZone(size)
    \/ unused("zones", "zones", "zone_" \o ToString(now)) /\ FinishDrawing
    \/ \E zoneName \in ZoneNames, ok \in BOOLEAN : room /\ WorkspaceSaveZone(zoneName, ok)
    \/ CancelZone
    \/ \E zoneId \in ids(page.zones), ok \in BOOLEAN : WorkspaceDeleteZone(zoneId, ok)
    \/ \E zoneId \in ids(page.zones), ok \in BOOLEAN : ZonesDeleteZone(zoneId, ok)
    \/ \E editingItem \in Range(page.items) \cup {Null}, ok \in BOOLEAN :
          \E form \in ItemForms(ids(page.zones)
                                \cup (IF editingItem = Null THEN {}
                                      ELSE {editingItem.zoneId})) :
             /\ editingItem = Null
                  => room /\ unused("inventory", "inventoryItems", "item_" \o ToString(now))
             /\ HandleSubmit(editingItem, form, ok)
    \/ \E itemId \in ids(page.items), ok \in BOOLEAN : DeleteItem(itemId, ok)
    \/ \E itemId \in ids(page.reorderItems) : ToggleItemSelection(itemId)
    \/ \E ok \in BOOLEAN, applied \in SUBSET ids(page.reorderItems), reloaded \in BOOLEAN :
          MarkAsOrdered(ok, applied, reloaded)
    \/ Tick

SpecPages == PagesInit /\ [][PagesNext]_vars

-----------------------------------------------------------------------------
(* SpecStats: one user's store holding items of several quantities and       *)
(* thresholds, a threshold being absent for some                             *)

\* <<quantity, reorderThreshold>> of the items saved
StockLevels == {<<0, Undefined>>, <<2, 5>>, <<5, 5>>, <<6, 5>>}

StatsImageInputs == {KitchenImage("img1", "fridge", "url", StoreUser, 0)}

\* the zone that is stored; items may name the other zone id as well
StatsZoneInputs == {Zone("z1", "img1", "shelf", 40, 40, StoreUser, 0)}

StatsItemInputs ==
    {InventoryItem(id, zoneId, "milk", level[1], level[2], StoreUser, 0, 0) :
        id \in ItemIds, zoneId \in ZoneIds, level \in StockLevels}

StatsNext ==
    \/ \E image \in StatsImageInputs :
          fits("images", StoreUser, image.id) /\ SaveImage(StoreUser, image)
    \/ DeleteImage(StoreUser, "img1")
    \/ \E zone \in StatsZoneInputs :
          fits("zones", StoreUser, zone.id) /\ SaveZone(StoreUser, zone)
    \/ \E zoneId \in ZoneIds : DeleteZone(StoreUser, zoneId)
    \/ \E item \in StatsItemInputs :
          fits("inventory", StoreUser, item.id) /\ SaveInventoryItem(StoreUser, item)
    \/ \E itemId \in ItemIds : DeleteInventoryItem(StoreUser, itemId)

SpecStats == Init /\ [][StatsNext]_vars

-----------------------------------------------------------------------------
(* SpecReorder: a signed-in session with the database available, where an   *)
(* image and a zone are already in the database; the user adds, edits and    *)
(* deletes items of several thresholds and works through the reorder list    *)

ReorderThresholds == {0, 3, 20}

ReorderForms(zoneIds) ==
    [name : {"milk"}, quantity : {0, 3}, reorderThreshold : ReorderThresholds,
     zoneId : zoneIds]

\* the records an earlier upload and an earlier saveZone of the user created
ReorderRemote ==
    [images |-> <<KitchenImage("img_0", "fridge", "publicUrl", StoreUser, 0)>>,
     zones |-> <<Zone("zone_0", "img_0", "shelf", 40, 40, StoreUser, 0)>>,
     inventoryItems |-> <<>>]

ReorderInit ==
    /\ StoreInit
    /\ user = [id |-> StoreUser, ref |-> 1]
    /\ loading = FALSE
    /\ databaseChecked = TRUE
    /\ databaseError = FALSE
    /\ probes = NoProbes
    /\ lastEvent = Event("settled", "effect", NoOutcome)
    /\ remote = ReorderRemote
    /\ pending = NoPending
    /\ \E ok \in BOOLEAN :
          LET d == mount("dashboard", storage, remote, databaseAvailable, ok)
          IN  /\ page = d.page
              /\ lastCall = Handled("dashboard", "load", "", d)

\* the user keeps at most as many items as there are ItemIds
ReorderNext ==
    \/ \E name \in {"dashboard", "inventory", "reorder"}, ok \in BOOLEAN : Navigate(name, ok)
    \/ \E editingItem \in Range(page.items) \cup {Null}, ok \in BOOLEAN :
          \E form \in ReorderForms(ids(page.zones)) :
             /\ editingItem = Null
                  => /\ Len(remote.inventoryItems) < Cardinality(ItemIds)
                     /\ unused("inventory", "inventoryItems", "item_" \o ToString(now))
             /\ HandleSubmit(editingItem, form, ok)
    \/ \E itemId \in ids(page.items), ok \in BOOLEAN : DeleteItem(itemId, ok)
    \/ \E itemId \in ids(page.reorderItems) : ToggleItemSelection(itemId)
    \/ \E ok \in BOOLEAN, applied \in SUBSET ids(page.reorderItems), reloaded \in BOOLEAN :
          MarkAsOrdered(ok, applied, reloaded)
    \/ Tick

SpecReorder == ReorderInit /\ [][ReorderNext]_vars

-----------------------------------------------------------------------------
(* SpecCandidates: the session of SpecReorder, where the user adds and edits  *)
(* items, deletes the zone on the zones page, and opens the reorder list      *)

CandidatesNext ==
    \/ \E name \in {"dashboard", "inventory", "zones", "reorder"}, ok \in BOOLEAN :
          Navigate(name, ok)
    \/ \E editingItem \in Range(page.items) \cup {Null}, ok \in BOOLEAN :
          \E form \in ReorderForms(ids(page.zones)) :
             /\ editingItem = Null
                  => /\ Len(remote.inventoryItems) < Cardinality(ItemIds)
                     /\ unused("inventory", "inventoryItems", "item_" \o ToString(now))
             /\ HandleSubmit(editingItem, form, ok)
    \/ \E zoneId \in ids(page.zones), ok \in BOOLEAN : ZonesDeleteZone(zoneId, ok)
    \/ Tick

SpecCandidates == ReorderInit /\ [][CandidatesNext]_vars

-----------------------------------------------------------------------------
(* SpecRestock: the session of SpecReorder with the - and + buttons of the   *)
(* suggested quantity, on one item of threshold 0 or 3 that is out of stock  *)

\* the + button is pressed up to this quantity
MaxSuggested == 14

RestockForms(zoneIds) ==
    [name : {"milk"}, quantity : {0}, reorderThreshold : {0, 3}, zoneId : zoneIds]

\* the - and + buttons of a candidate: step is -1 or 1
UpdateSuggestedQuantity(itemId, step) ==
    /\ rendersPage /\ page.name = "reorder"
    /\ \E c \in Range(page.reorderItems) :
          /\ c.id = itemId
          /\ c.suggestedQuantity + step <= MaxSuggested
          /\ Local("updateSuggestedQuantity",
                   ReorderCenter_updateSuggestedQuantity(page, itemId,
                                                         c.suggestedQuantity + step))

RestockNext ==
    \/ \E name \in {"inventory", "reorder"}, ok \in BOOLEAN : Navigate(name, ok)
    \/ \E form \in RestockForms(ids(page.zones)) :
          /\ remote.inventoryItems = <<>>
          /\ unused("inventory", "inventoryItems", "item_" \o ToString(now))
          /\ HandleSubmit(Null, form, TRUE)
    \/ \E itemId \in ids(page.reorderItems) : ToggleItemSelection(itemId)
    \/ \E itemId \in ids(page.reorderItems), step \in {-1, 1} :
          UpdateSuggestedQuantity(itemId, step)
    \/ \E ok \in BOOLEAN, applied \in SUBSET ids(page.reorderItems), reloaded \in BOOLEAN :
          MarkAsOrdered(ok, applied, reloaded)
    \/ Tick

SpecRestock == ReorderInit /\ [][RestockNext]_vars

-----------------------------------------------------------------------------
(* SpecForms: the two forms that validate what was typed - the naming form   *)
(* of a drawn zone in the workspace and the item dialog of the inventory     *)

FormsNext ==
    \/ \E name \in {"workspace", "inventory"}, ok \in BOOLEAN : Navigate(name, ok)
    \/ \E fileName \in FileNames, ok \in BOOLEAN :
          /\ room /\ unused("images", "images", "img_" \o ToString(now))
          /\ HandleFileUpload(fileName, TRUE, ok)
    \/ \E image \in Range(page.images) : SelectImage(image, TRUE)
    \/ StartDrawing
    \/ \E size \in DrawSizes : DrawZone(size)
    \/ unused("zones", "zones", "zone_" \o ToString(now)) /\ FinishDrawing
    \/ \E zoneName \in ZoneNames, ok \in BOOLEAN : room /\ WorkspaceSaveZone(zoneName, ok)
    \/ \E editingItem \in Range(page.items) \cup {Null}, ok \in BOOLEAN :
          \E form \in ItemForms(ids(page.zones)
                                \cup (IF editingItem = Null THEN {}
                                      ELSE {editingItem.zoneId})) :
             /\ editingItem = Null
                  => room /\ unused("inventory", "inventoryItems", "item_" \o ToString(now))
             /\ HandleSubmit(editingItem, form, ok)
    \/ Tick

SpecForms == PagesInit /\ [][FormsNext]_vars

-----------------------------------------------------------------------------
(* SpecSwitch: the verdict changes while the pages are in use. The auth      *)
(* client delivers the signed-in user again as a new object, the probe       *)
(* effect runs again behind the page that is shown, and its outcome sets     *)
(* databaseError; the page, whose loader depends on databaseAvailable,       *)
(* loads again when the prop changed.                                        *)

\* useEffect(() => { load() }, [load]) of the mounted page, load being
\* rebuilt when databaseAvailable changes: the lists are loaded again, the
\* rest of the component state stays
reload(pg, st, r, available, ok) ==
    CASE pg.name = "dashboard" -> Dashboard_loadDashboardStats(pg, st, r, available, ok)
      [] pg.name = "workspace" -> ImageWorkspace_loadImages(pg, st, r, available, ok)
      [] pg.name = "zones" -> ZoneManagement_loadData(pg, st, r, available, ok)
      [] pg.name = "inventory" -> InventoryItems_loadData(pg, st, r, available, ok)
      [] pg.name = "reorder" -> ReorderCenter_loadData(pg, st, r, available, ok)

\* the signed-in user is delivered again, as the other object
Reauthenticated(stateUser) ==
    /\ rendersPage
    /\ stateUser.id = user.id /\ stateUser # user
    /\ AuthStateChanged(stateUser, FALSE)

\* a probe settles behind the page that is shown
ProbeSettlesOnPage(p, outcome, ok) ==
    /\ rendersPage
    /\ settles(p, outcome)
    /\ IF databaseError' # databaseError
       THEN LET d == reload(page, storage, remote, ~databaseError', ok)
            IN  /\ page' = d.page
                /\ lastCall' = [page |-> page.name, handler |-> "load",
                                available |-> ~databaseError', calls |-> d.calls,
                                id |-> "", ok |-> d.ok]
       ELSE UNCHANGED <<page, lastCall>>
    /\ UNCHANGED <<remote, pending>>

SwitchOutcomes ==
    {NoOutcome,
     [ok |-> FALSE, error |-> [message |-> "relation images not found",
                               code |-> "", status |-> 0]]}

\* the image that is selected is among the images listed
selectedListed == page.selectedImage \in ids(page.images) \cup {""}

\* the backend the verdict selects holds no record of the kind: the session
\* keeps at most one record of a kind on each backend
vacant(table, kind) ==
    IF databaseAvailable THEN remote[kind] = <<>>
    ELSE readAll(storage, table, me) = <<>>

SwitchNext ==
    \/ \E stateUser \in UserObjects : probes = NoProbes /\ Reauthenticated(stateUser)
    \/ \E p \in DOMAIN probes, outcome \in SwitchOutcomes :
          ProbeSettlesOnPage(p, outcome, TRUE)
    \/ \E name \in {"workspace", "zones", "inventory"} : Navigate(name, TRUE)
    \/ \E fileName \in FileNames :
          /\ room /\ vacant("images", "images")
          /\ unused("images", "images", "img_" \o ToString(now))
          /\ HandleFileUpload(fileName, TRUE, TRUE)
    \/ \E image \in Range(page.images) : SelectImage(image, TRUE)
    \/ StartDrawing
    \/ DrawZone(<<20, 20>>)
    \/ unused("zones", "zones", "zone_" \o ToString(now)) /\ FinishDrawing
    \/ room /\ vacant("zones", "zones") /\ selectedListed /\ WorkspaceSaveZone(" shelf", TRUE)
    \/ \E zoneId \in ids(page.zones) : ZonesDeleteZone(zoneId, TRUE)
    \/ \E editingItem \in Range(page.items) \cup {Null} :
          \E form \in ItemForms(ids(page.zones)) :
             /\ editingItem = Null
                  => /\ room /\ remote.inventoryItems = <<>>
                     /\ unused("inventory", "inventoryItems", "item_" \o ToString(now))
             /\ HandleSubmit(editingItem, form, TRUE)
    \/ \E itemId \in ids(page.items) : DeleteItem(itemId, TRUE)
    \/ Tick

SpecSwitch == PagesInit /\ [][SwitchNext]_vars

-----------------------------------------------------------------------------
(* SpecUpload: handleFileUpload step by step - up to the await of the file   *)
(* upload, from there to the await of the record write, and to its end -     *)
(* on a workspace that stays mounted                                         *)

\* the handleFileUpload calls that may be running at a time
Uploads == {"upload1", "upload2"}

\* the public URLs blink.storage.upload may return
PublicUrls == {"url1", "url2"}

drop(waiting, h) == [k \in DOMAIN waiting \ {h} |-> waiting[k]]

\* an upload that goes to the backend the verdict selects
ImageWorkspace_uploadFileRouted(pg, available, fileName) ==
    [page |-> [pg EXCEPT !.uploading = TRUE],
     then |-> [handler |-> "handleFileUpload", at |-> "upload",
               available |-> available, fileName |-> fileName,
               calls |-> <<Call(IF available THEN "remote" ELSE "local",
                                "files", "upload")>>,
               imageRecord |-> Null]]

\* setUploading(true); await blink.auth.me(); blink.storage.upload is called.
\* databaseAvailable is the prop of the render whose handler runs
ImageWorkspace_uploadFile(pg, available, fileName) ==
    [page |-> [pg EXCEPT !.uploading = TRUE],
     then |-> [handler |-> "handleFileUpload", at |-> "upload",
               available |-> available, fileName |-> fileName,
               calls |-> <<Call("remote", "files", "upload")>>,
               imageRecord |-> Null]]

\* the upload settled. Rejected: catch, then finally. Resolved with publicUrl:
\* imageRecord is built and the record write is called
ImageWorkspace_uploadSettled(pg, c, uploaded, publicUrl, date) ==
    IF ~uploaded
    THEN [page |-> [pg EXCEPT !.uploading = FALSE], then |-> Null]
    ELSE [page |-> pg,
          then |-> [c EXCEPT
                      !.at = "record",
                      !.imageRecord = KitchenImage("img_" \o ToString(date),
                                                   beforeDot(c.fileName), publicUrl,
                                                   me, date),
                      !.calls = Append(@, Call(IF c.available THEN "remote" ELSE "local",
                                               "images", "create"))]]

\* the record write settled: setImages on success, catch otherwise; finally
ImageWorkspace_recordSettled(pg, st, r, c, ok) ==
    LET finally(p) == [p EXCEPT !.uploading = FALSE]
        added == finally([pg EXCEPT !.images = unshift(pg.images, c.imageRecord)])
        calls == Range(c.calls)
    IN  IF c.available
        THEN IF ok
             THEN Wrote(added, st, remoteCreate(r, "images", c.imageRecord), calls, TRUE)
             ELSE Wrote(finally(pg), st, r, calls, FALSE)
        ELSE LET w == saveImage(st, me, c.imageRecord)
             IN  IF ~w.threw
                 THEN Wrote(added, w.st, r, calls, TRUE)
                 ELSE Wrote(finally(pg), st, r, calls, FALSE)

\* a file is chosen: the header button is disabled while uploading, the
\* "Upload First Image" button of the empty gallery is not
UploadStart(h, fileName) ==
    /\ rendersPage /\ page.name = "workspace"
    /\ h \notin DOMAIN pending
    /\ ~page.uploading \/ page.images = <<>>
    /\ LET d == ImageWorkspace_uploadFile(page, databaseAvailable, fileName)
       IN  /\ page' = d.page
           /\ pending' = pending @@ (h :> d.then)
    /\ UNCHANGED <<remote, lastCall, storeVars, appVars>>

UploadSettled(h, uploaded, publicUrl) ==
    /\ h \in DOMAIN pending /\ pending[h].at = "upload"
    /\ LET d == ImageWorkspace_uploadSettled(page, pending[h], uploaded, publicUrl, now)
       IN  /\ page' = d.page
           /\ pending' = IF d.then = Null THEN drop(pending, h)
                         ELSE [pending EXCEPT ![h] = d.then]
           /\ lastCall' = IF d.then = Null
                          THEN Handled(page.name, "handleFileUpload", "",
                                       Done(d.page, Range(pending[h].calls), FALSE))
                          ELSE lastCall
    /\ UNCHANGED <<remote, storeVars, appVars>>

RecordSettled(h, ok) ==
    /\ h \in DOMAIN pending /\ pending[h].at = "record"
    /\ LET d == ImageWorkspace_recordSettled(page, storage, remote, pending[h], ok)
       IN  /\ page' = d.page
           /\ storage' = d.st
           /\ remote' = d.r
           /\ lastCall' = Handled(page.name, "handleFileUpload",
                                  pending[h].imageRecord.id, d)
    /\ pending' = drop(pending, h)
    /\ UNCHANGED <<now, lastOp, lastSaved, appVars>>

\* the ids of the image records whose write is awaited
awaited == {pending[h].imageRecord.id : h \in {k \in DOMAIN pending : pending[k].at = "record"}}

UploadNext ==
    \/ \E ok \in BOOLEAN : Navigate("workspace", ok)
    \/ \E h \in Uploads, fileName \in FileNames : UploadStart(h, fileName)
    \/ \E h \in Uploads, uploaded \in BOOLEAN, publicUrl \in PublicUrls :
          /\ uploaded =>
                /\ held(storage) + records(remote) + Cardinality(awaited) < MaxRecords
                /\ unused("images", "images", "img_" \o ToString(now))
                /\ "img_" \o ToString(now) \notin awaited
          /\ UploadSettled(h, uploaded, publicUrl)
    \/ \E h \in Uploads, ok \in BOOLEAN : RecordSettled(h, ok)
    \/ \E image \in Range(page.images), ok \in BOOLEAN : SelectImage(image, ok)
    \/ Tick

SpecUpload == PagesInit /\ [][UploadNext]_vars

-----------------------------------------------------------------------------
(* SpecRace: the saves of the local store step by step. A save calls the     *)
(* getter, which reads localStorage at once, and awaits its promise; it      *)
(* resumes in a later microtask, in the order of the calls, and writes the   *)
(* array it read with the record put in. Other calls may be made in between. *)

\* the saves that may be running at a time
Saves == {"save1", "save2"}

\* a save up to its await: the getter has read the whole collection, or has
\* failed to parse it
called(st, handler, table, userId, rec, seq) ==
    [handler |-> handler, at |-> "await", table |-> table, userId |-> userId,
     rec |-> rec, seq |-> seq,
     parsed |-> readable(st, table, userId),
     read |-> IF readable(st, table, userId) THEN readAll(st, table, userId) ELSE <<>>]

\* a resumed save that reads the collection again before it writes
saveResumedOnFreshRead(st, c, date) ==
    IF c.handler = "saveImage" THEN saveImage(st, c.userId, c.rec)
    ELSE saveInventoryItem(st, c.userId, c.rec, date)

\* saveImage / saveInventoryItem after the await: findIndex on the array that
\* was read, replace or insert, setItem of the whole array
saveResumed(st, c, date) ==
    IF ~c.parsed THEN Throw(st)
    ELSE LET existingIndex == findIndex(c.read, c.rec.id)
             written ==
                 IF c.handler = "saveImage"
                 THEN IF existingIndex >= 0
                      THEN replaceAt(c.read, existingIndex, c.rec)
                      ELSE unshift(c.read, c.rec)
                 ELSE IF existingIndex >= 0
                      THEN replaceAt(c.read, existingIndex,
                                     [c.rec EXCEPT !.updatedAt = date])
                      ELSE push(c.read, c.rec)
         IN  Ok(setItem(st, getKey(c.table, c.userId), JSONstringify(written)))

\* the place of the next call in the order of resumption
turn == Cardinality(DOMAIN pending) + 1

SaveCalled(s, handler, table, userId, rec) ==
    /\ s \notin DOMAIN pending
    /\ pending' = pending @@ (s :> called(storage, handler, table, userId, rec, turn))
    /\ UNCHANGED <<storeVars, appVars, remote, page, lastCall>>

\* the microtask of the save that was called first runs
SaveResumes(s) ==
    /\ s \in DOMAIN pending
    /\ pending[s].seq = 1
    /\ LET c == pending[s]
           r == saveResumed(storage, c, now)
       IN  /\ storage' = r.st
           /\ lastOp' = Op(c.handler, c.userId, c.rec.id, r.threw, 0)
           /\ lastSaved' = IF r.threw THEN lastSaved
                           ELSE remember(lastSaved, c.table, c.userId, c.rec, now)
    /\ pending' = [k \in DOMAIN pending \ {s} |->
                      [pending[k] EXCEPT !.seq = @ - 1]]
    /\ UNCHANGED <<now, appVars, remote, page, lastCall>>

\* the records stored and the saves in progress are within the bound
spare == held(storage) + Cardinality(DOMAIN pending) < MaxRecords

RaceImageInputs == {KitchenImage(id, "fridge", "url", StoreUser, 0) : id \in ImageIds}

RaceItemInputs ==
    {InventoryItem(id, "z1", "milk", 2, 5, StoreUser, 0, 0) : id \in ItemIds}

RaceNext ==
    \/ \E s \in Saves, image \in RaceImageInputs :
          spare /\ SaveCalled(s, "saveImage", "images", StoreUser, image)
    \/ \E s \in Saves, item \in RaceItemInputs :
          spare /\ SaveCalled(s, "saveInventoryItem", "inventory", StoreUser, item)
    \/ \E s \in Saves : SaveResumes(s)
    \/ \E imageId \in ImageIds : pending = NoPending /\ DeleteImage(StoreUser, imageId)
    \/ \E itemId \in ItemIds : pending = NoPending /\ DeleteInventoryItem(StoreUser, itemId)

SpecRace == Init /\ [][RaceNext]_vars

-----------------------------------------------------------------------------
(* SpecCross: deleteZone step by step, next to the saves of SpecRace. At     *)
(* most one call of each operation is in progress; a call is named by its    *)
(* operation. deleteZone awaits twice: the zones it read, and then, inside   *)
(* deleteItemsByZone, the items it read.                                     *)

\* deleteZone up to await this.getZones(userId)
deleteZoneCalled(st, userId, zoneId, seq) ==
    [handler |-> "deleteZone", at |-> "getZones", table |-> "zones", userId |-> userId,
     rec |-> [id |-> zoneId], seq |-> seq,
     parsed |-> readable(st, "zones", userId),
     read |-> IF readable(st, "zones", userId) THEN getZones(st, userId, "") ELSE <<>>]

\* deleteZone after its first await that writes the zones it read unfiltered
deleteZoneResumedKeepingZone(st, c) ==
    IF ~c.parsed THEN [st |-> st, threw |-> TRUE, c |-> c]
    ELSE LET st1 == setItem(st, getKey("zones", c.userId), JSONstringify(c.read))
         IN  [st |-> st1, threw |-> FALSE,
              c |-> [c EXCEPT !.at = "getInventoryItems", !.table = "inventory",
                              !.parsed = readable(st1, "inventory", c.userId),
                              !.read = IF readable(st1, "inventory", c.userId)
                                       THEN getInventoryItems(st1, c.userId, "")
                                       ELSE <<>>]]

\* deleteZone after its first await: the zones are written without the zone,
\* deleteItemsByZone is called and reads the items
deleteZoneResumed(st, c) ==
    IF ~c.parsed THEN [st |-> st, threw |-> TRUE, c |-> c]
    ELSE LET filtered == filterOutId(c.read, c.rec.id)
             st1 == setItem(st, getKey("zones", c.userId), JSONstringify(filtered))
         IN  [st |-> st1, threw |-> FALSE,
              c |-> [c EXCEPT !.at = "getInventoryItems", !.table = "inventory",
                              !.parsed = readable(st1, "inventory", c.userId),
                              !.read = IF readable(st1, "inventory", c.userId)
                                       THEN getInventoryItems(st1, c.userId, "")
                                       ELSE <<>>]]

\* deleteItemsByZone after its await: the items that were read are written
\* without those of the zone
deleteItemsByZoneResumed(st, c) ==
    IF ~c.parsed THEN Throw(st)
    ELSE Ok(setItem(st, getKey("inventory", c.userId),
                    JSONstringify(filterZoneIdIsNot(c.read, c.rec.id))))

\* the calls in progress without call s, each one place nearer to its turn
advanced(s) == [k \in DOMAIN pending \ {s} |-> [pending[k] EXCEPT !.seq = @ - 1]]

DeleteZoneCalled(s, userId, zoneId) ==
    /\ s \notin DOMAIN pending
    /\ pending' = pending @@ (s :> deleteZoneCalled(storage, userId, zoneId, turn))
    /\ UNCHANGED <<storeVars, appVars, remote, page, lastCall>>

DeleteZoneResumes(s) ==
    /\ s \in DOMAIN pending
    /\ pending[s].seq = 1 /\ pending[s].at = "getZones"
    /\ LET c == pending[s]
           r == deleteZoneResumed(storage, c)
       IN  /\ storage' = r.st
           /\ IF r.threw
              THEN /\ pending' = advanced(s)
                   /\ lastOp' = Op("deleteZone", c.userId, c.rec.id, TRUE, 0)
              ELSE /\ pending' = advanced(s)
                                   @@ (s :> [r.c EXCEPT !.seq = Cardinality(DOMAIN pending)])
                   /\ lastOp' = lastOp
    /\ UNCHANGED <<now, lastSaved, appVars, remote, page, lastCall>>

DeleteItemsByZoneResumes(s) ==
    /\ s \in DOMAIN pending
    /\ pending[s].seq = 1 /\ pending[s].at = "getInventoryItems"
    /\ LET c == pending[s]
           r == deleteItemsByZoneResumed(storage, c)
       IN  /\ storage' = r.st
           /\ lastOp' = Op("deleteZone", c.userId, c.rec.id, r.threw,
                           count(storage, "inventory", c.userId)
                             - count(r.st, "inventory", c.userId))
           /\ lastSaved' = IF r.threw THEN lastSaved
                           ELSE forget(lastSaved,
                                       {<<"zones", c.userId, c.rec.id>>}
                                         \cup dependents(lastSaved, c.userId, c.rec.id))
    /\ pending' = advanced(s)
    /\ UNCHANGED <<now, appVars, remote, page, lastCall>>

CrossZoneInputs == {Zone(id, "img1", "shelf", 40, 40, StoreUser, 0) : id \in ZoneIds}

CrossItemInputs ==
    {InventoryItem("i1", zoneId, "milk", 2, 5, StoreUser, 0, 0) : zoneId \in ZoneIds}

CrossNext ==
    \/ \E zone \in CrossZoneInputs :
          /\ pending = NoPending /\ fits("zones", StoreUser, zone.id)
          /\ SaveZone(StoreUser, zone)
    \/ \E image \in RaceImageInputs :
          spare /\ SaveCalled("saveImage", "saveImage", "images", StoreUser, image)
    \/ \E item \in CrossItemInputs :
          /\ spare
          /\ SaveCalled("saveInventoryItem", "saveInventoryItem", "inventory",
                        StoreUser, item)
    \/ \E s \in {"saveImage", "saveInventoryItem"} : SaveResumes(s)
    \/ \E zoneId \in ZoneIds : DeleteZoneCalled("deleteZone", StoreUser, zoneId)
    \/ DeleteZoneResumes("deleteZone")
    \/ DeleteItemsByZoneResumes("deleteZone")

SpecCross == Init /\ [][CrossNext]_vars

-----------------------------------------------------------------------------
(* SpecCreated: the store is called with records whose createdAt is the      *)
(* caller's to choose                                                        *)

\* createdAt values a caller passes
CreatedAts == 0..1

CreatedNext ==
    \/ \E id \in ImageIds, createdAt \in CreatedAts :
          /\ fits("images", StoreUser, id)
          /\ SaveImage(StoreUser, KitchenImage(id, "fridge", "url", StoreUser, createdAt))
    \/ \E id \in ZoneIds, createdAt \in CreatedAts :
          /\ fits("zones", StoreUser, id)
          /\ SaveZone(StoreUser, Zone(id, "img1", "shelf", 40, 40, StoreUser, createdAt))
    \/ \E id \in ItemIds, createdAt \in CreatedAts :
          /\ fits("inventory", StoreUser, id)
          /\ SaveInventoryItem(StoreUser,
                               InventoryItem(id, "z1", "milk", 2, 5, StoreUser,
                                             createdAt, createdAt))
    \/ \E id \in ItemIds : DeleteInventoryItem(StoreUser, id)

SpecCreated == Init /\ [][CreatedNext]_vars

-----------------------------------------------------------------------------
(* SpecProbe: App with a gateway that answers every call: each probe that is *)
(* in flight settles, resolved or rejected, after finitely many steps        *)

\* the probes that can be in flight: who is signed in and what started it
ProbeKeys == [userId : Users, cause : {"effect", "retry"}]

\* the answers of the gateway that matter to the verdict
ProbeAnswers ==
    SwitchOutcomes
      \cup {[ok |-> FALSE, error |-> [message |-> "permission denied",
                                       code |-> "AUTH_ERROR", status |-> 401]]}

ProbeAnswered(p) == \E outcome \in ProbeAnswers : ProbeSettles(p, outcome)

ProbeNext ==
    \/ \E u \in UserObjects \cup {NoUser}, isLoading \in BOOLEAN :
          AuthStateChanged(u, isLoading)
    \/ \E p \in DOMAIN probes : ProbeAnswered(p)
    \/ HandleDatabaseRetry

SpecProbe ==
    /\ Init
    /\ [][ProbeNext]_vars
    /\ \A p \in ProbeKeys : WF_vars(ProbeAnswered(p))

-----------------------------------------------------------------------------
(* SpecCorrupt: the text under a key of the local store is replaced, from    *)
(* outside the program, by text that JSON.parse rejects; the store is        *)
(* called and the pages that list from it are opened                         *)

\* a text that is not JSON
Malformed == [raw |-> "{"]

\* the stored text of a collection of the user is overwritten
Corrupted(table) ==
    /\ storage' = setItem(storage, getKey(table, StoreUser), Malformed)
    /\ UNCHANGED <<now, lastOp, lastSaved, appVars, pageVars>>

CorruptImageInputs == {KitchenImage("img1", "fridge", "url", StoreUser, 0)}

CorruptZoneInputs == {Zone("z1", "img1", "shelf", 40, 40, StoreUser, 0)}

CorruptItemInputs == {InventoryItem("i1", id, "milk", 2, 5, StoreUser, 0, 0) : id \in ZoneIds}

CorruptNext ==
    \/ \E table \in Tables : Corrupted(table)
    \/ \E name \in {"dashboard", "workspace", "zones"}, ok \in BOOLEAN : Navigate(name, ok)
    \/ \E image \in CorruptImageInputs :
          fits("images", StoreUser, image.id) /\ SaveImage(StoreUser, image)
    \/ \E zone \in CorruptZoneInputs :
          fits("zones", StoreUser, zone.id) /\ SaveZone(StoreUser, zone)
    \/ \E item \in CorruptItemInputs :
          fits("inventory", StoreUser, item.id) /\ SaveInventoryItem(StoreUser, item)
    \/ \E zoneId \in ZoneIds : DeleteZone(StoreUser, zoneId)

SpecCorrupt == PagesInit /\ [][CorruptNext]_vars

-----------------------------------------------------------------------------
(* SpecWorkspace: the image workspace on either backend: an image is         *)
(* uploaded and selected, zones are dragged in every direction, named,       *)
(* cancelled and deleted, the backend failing at times; the inventory text   *)
(* of the local store may be overwritten from outside. Two drags do not end  *)
(* in the same millisecond.                                                  *)

\* <<width, height>> of the rectangle when the mouse is released
Drags == {<<19, 40>>, <<-20, 20>>, <<40, -19>>}

WorkspaceNext ==
    \/ Navigate("workspace", TRUE)
    \/ \E fileName \in FileNames :
          /\ room /\ unused("images", "images", "img_" \o ToString(now))
          /\ HandleFileUpload(fileName, TRUE, TRUE)
    \/ \E image \in Range(page.images), ok \in BOOLEAN : SelectImage(image, ok)
    \/ StartDrawing
    \/ \E size \in Drags : DrawZone(size)
    \/ /\ unused("zones", "zones", "zone_" \o ToString(now))
       /\ "zone_" \o ToString(now) \notin ids(page.zones)
       /\ FinishDrawing
    \/ \E zoneName \in {" ", " shelf"}, ok \in BOOLEAN :
          room /\ WorkspaceSaveZone(zoneName, ok)
    \/ CancelZone
    \/ \E zoneId \in ids(page.zones), ok \in BOOLEAN : WorkspaceDeleteZone(zoneId, ok)
    \/ ~databaseAvailable /\ Corrupted("inventory")
    \/ Tick

SpecWorkspace == PagesInit /\ [][WorkspaceNext]_vars

-----------------------------------------------------------------------------
(* Claims about the pages *)

RecordKinds == {"images", "zones", "inventoryItems"}

\* C3 as stated: every list, create, update and delete a page issues goes to the
\* remote gateway when databaseAvailable is true and to the local store when it
\* is false; in particular no record call reaches the remote gateway while the
\* verdict is unavailable, and a page load lists from the selected backend
\* instead of showing nothing.
C3_RoutedByVerdict ==
    /\ \A c \in lastCall.calls :
          c.entity \in RecordKinds
            => c.backend = (IF lastCall.available THEN "remote" ELSE "local")
    /\ lastCall.handler = "load" => lastCall.calls # {}

\* C4 as stated: after a zone delete issued through a page succeeds, no
\* inventory item of the selected backend refers to the deleted zone.
C4_ZoneDeleteCascadesOnBothBackends ==
    (lastCall.handler = "deleteZone" /\ lastCall.ok) =>
        LET items == IF lastCall.available THEN remote.inventoryItems
                     ELSE getInventoryItems(storage, me, "")
        IN  \A i \in 1..Len(items) : items[i].zoneId # lastCall.id

-----------------------------------------------------------------------------
(* Claims about App *)

\* C5 as stated: a feature page is rendered only if a user is authenticated and
\* no availability probe for that user is outstanding (while one is in flight
\* the loading screen is shown).
C5_NoPageWhileProbing ==
    rendersPage =>
        /\ user # NoUser
        /\ \A p \in DOMAIN probes : p.userId # user.id

\* C6 as stated: when a session's authentication becomes ready exactly one probe
\* is issued; within a session no auth-state notification starts another probe;
\* and a verdict that was reached changes only by a retry or by the result of a
\* probe that a retry started.
C6_ProbeOnceThenOnlyOnRetry ==
    [][LET ready == user # NoUser /\ ~loading
           ready2 == user' # NoUser /\ ~loading'
           sameSession == ready /\ ready2 /\ user'.id = user.id
       IN  /\ (lastEvent'.type = "auth" /\ ~ready /\ ready2)
                => inFlight(probes') = inFlight(probes) + 1
           /\ (lastEvent'.type = "auth" /\ sameSession) => probes' = probes
           /\ (sameSession /\ databaseChecked
                 /\ <<databaseError, databaseChecked>>' # <<databaseError, databaseChecked>>)
                => \/ lastEvent'.type = "retry"
                   \/ lastEvent'.type = "settled" /\ lastEvent'.cause = "retry"
      ]_vars

\* the failures the taxonomy names, among Messages
MissingMessages ==
    {"Database for project abc is not set up", "relation images not found",
     "PGRST116: no rows", "maximum database count reached"}

\* C7: a probe that succeeds yields Available; a probe that fails yields
\* Unavailable exactly when its message contains one of the four markers, its
\* code is NETWORK_ERROR or SQL_EXECUTION_ERROR, or its status is 400 or 404.
C7_ProbeClassification ==
    lastEvent.type = "settled" =>
        /\ databaseChecked
        /\ databaseError =
             (/\ ~lastEvent.outcome.ok
              /\ \/ lastEvent.outcome.error.message \in MissingMessages
                 \/ lastEvent.outcome.error.code \in {"NETWORK_ERROR", "SQL_EXECUTION_ERROR"}
                 \/ lastEvent.outcome.error.status \in {400, 404})

\* a probe failed with nothing but a 'not found' message and the verdict is
\* Unavailable
C7_Witness ==
    /\ lastEvent.type = "settled"
    /\ lastEvent.outcome =
         [ok |-> FALSE,
          error |-> [message |-> "relation images not found", code |-> "", status |-> 0]]
    /\ databaseError

-----------------------------------------------------------------------------
(* Claims about the local store *)

\* the records of a stored collection that carry the id
withId(st, table, userId, id) ==
    LET list == readAll(st, table, userId)
    IN  {i \in 1..Len(list) : list[i].id = id}

\* C1 as stated: every id saved and not deleted since is listed exactly once,
\* and the stored record equals, field for field, the value passed to the last
\* save of that id.
C1_StoredEqualsPassed ==
    \A k \in DOMAIN lastSaved :
        LET list == readAll(storage, k[1], k[2])
            at == withId(storage, k[1], k[2], k[3])
        IN  /\ Cardinality(at) = 1
            /\ \A i \in at : list[i] = lastSaved[k].rec

\* C1 amended: every id saved and not deleted since is listed exactly once, and
\* the stored record equals the value passed to the last save of that id, except
\* that for an inventory item saved under an id that was already stored the
\* stored updatedAt is the time of that save.
C1_StoredEqualsPassedButStamp ==
    \A k \in DOMAIN lastSaved :
        LET list == readAll(storage, k[1], k[2])
            at == withId(storage, k[1], k[2], k[3])
            passed == lastSaved[k].rec
        IN  /\ Cardinality(at) = 1
            /\ \A i \in at :
                  list[i] = IF k[1] = "inventory" /\ lastSaved[k].over
                            THEN [passed EXCEPT !.updatedAt = lastSaved[k].at]
                            ELSE passed

\* an inventory item was saved over an existing id with an updatedAt that is
\* not the time of the save, while a record of another kind is stored
C1_Witness ==
    /\ lastOp.op = "saveInventoryItem"
    /\ \E k \in DOMAIN lastSaved :
          /\ k[1] = "inventory" /\ k[3] = lastOp.id
          /\ lastSaved[k].over
          /\ lastSaved[k].rec.updatedAt # lastSaved[k].at
    /\ \E k \in DOMAIN lastSaved : k[1] # "inventory"

\* C2: a deleteZone(userId, z) step leaves no item of zone z and no zone z, and
\* every item of another zone is still stored, unchanged.
C2_DeleteZoneCascades ==
    [][\A z \in ZoneIds :
          DeleteZone(StoreUser, z) =>
            /\ getInventoryItems(storage', StoreUser, z) = <<>>
            /\ \A zone \in Range(getZones(storage', StoreUser, "")) : zone.id # z
            /\ \A item \in Range(getInventoryItems(storage, StoreUser, "")) :
                  item.zoneId # z =>
                    item \in Range(getInventoryItems(storage', StoreUser, ""))
            /\ Len(getInventoryItems(storage', StoreUser, ""))
                 = Cardinality({i \in 1..Len(getInventoryItems(storage, StoreUser, "")) :
                                  getInventoryItems(storage, StoreUser, "")[i].zoneId # z})
      ]_vars

\* deleteZone removed an item of its zone and an item of another zone remains
C2_Witness ==
    /\ lastOp.op = "deleteZone"
    /\ lastOp.removed >= 1
    /\ \E item \in Range(getInventoryItems(storage, StoreUser, "")) :
          item.zoneId # lastOp.id

\* C9: a deleteImage(userId, id) step leaves the stored zones and inventory of
\* the user as they were, removes the image with that id and keeps every other
\* image.
C9_DeleteImageOnly ==
    [][\A id \in ImageIds :
          DeleteImage(StoreUser, id) =>
            /\ getItem(storage', getKey("zones", StoreUser))
                 = getItem(storage, getKey("zones", StoreUser))
            /\ getItem(storage', getKey("inventory", StoreUser))
                 = getItem(storage, getKey("inventory", StoreUser))
            /\ \A image \in Range(getImages(storage', StoreUser)) : image.id # id
            /\ \A image \in Range(getImages(storage, StoreUser)) :
                  image.id # id => image \in Range(getImages(storage', StoreUser))
      ]_vars

\* deleteImage removed an image on which a stored zone is drawn
C9_Witness ==
    /\ lastOp.op = "deleteImage"
    /\ lastOp.removed = 1
    /\ \E zone \in Range(getZones(storage, StoreUser, "")) : zone.imageId = lastOp.id

\* the three collections of a user, as list returns them
collections(st, userId) ==
    <<getImages(st, userId), getZones(st, userId, ""),
      getInventoryItems(st, userId, "")>>

isDelete(op) == op \in {"deleteImage", "deleteZone", "deleteInventoryItem"}

tableOf(op) ==
    CASE op = "deleteImage" -> "images"
      [] op = "deleteZone" -> "zones"
      [] OTHER -> "inventory"

\* C10 as stated: a delete that repeats the delete just done, or whose id is
\* not stored, does not fail and leaves the three collections as they were.
C10_DeleteIdempotent ==
    [][(/\ isDelete(lastOp'.op)
        /\ lastOp' # lastOp
        /\ \/ lastOp'.again
           \/ withId(storage, tableOf(lastOp'.op), lastOp'.userId, lastOp'.id) = {})
       => /\ ~lastOp'.threw
          /\ collections(storage', lastOp'.userId) = collections(storage, lastOp'.userId)
      ]_vars

\* C10 amended: a delete that repeats the delete just done does not fail and
\* leaves the three collections as they were; so does a delete of an id that is
\* not stored, provided - for deleteZone - that no stored inventory item has
\* that id as its zoneId.
C10_DeleteIdempotentNoDependents ==
    [][(/\ isDelete(lastOp'.op)
        /\ lastOp' # lastOp
        /\ \/ lastOp'.again
           \/ /\ withId(storage, tableOf(lastOp'.op), lastOp'.userId, lastOp'.id) = {}
              /\ lastOp'.op = "deleteZone" =>
                    getInventoryItems(storage, lastOp'.userId, lastOp'.id) = <<>>)
       => /\ ~lastOp'.threw
          /\ collections(storage', lastOp'.userId) = collections(storage, lastOp'.userId)
      ]_vars

\* a delete was repeated right after itself while records are stored
C10_Witness ==
    /\ isDelete(lastOp.op)
    /\ lastOp.again
    /\ lastOp.removed = 0
    /\ getImages(storage, StoreUser) # <<>>
    /\ getInventoryItems(storage, StoreUser, "") # <<>>

\* a save of a record whose id is not stored puts it in front of the images
\* and behind the zones, the records already stored keeping their order
insertsImagesAtHeadZonesAtTail ==
    /\ \A image \in ImageInputs(StoreUser) :
          (SaveImage(StoreUser, image)
             /\ withId(storage, "images", StoreUser, image.id) = {})
            => getImages(storage', StoreUser) = <<image>> \o getImages(storage, StoreUser)
    /\ \A zone \in ZoneInputs(StoreUser) :
          (SaveZone(StoreUser, zone)
             /\ withId(storage, "zones", StoreUser, zone.id) = {})
            => getZones(storage', StoreUser, "")
                 = getZones(storage, StoreUser, "") \o <<zone>>

-----------------------------------------------------------------------------
(* Claims about the stats and the reorder list *)

\* quantity <= reorderThreshold, an absent reorderThreshold taken as 0
lowStockAsSpecified(item) ==
    \/ item.reorderThreshold = Undefined /\ item.quantity <= 0
    \/ item.reorderThreshold # Undefined /\ item.quantity <= item.reorderThreshold

\* C12 as stated: for every item, getStats, Dashboard, InventoryItems.isLowStock
\* and ReorderCenter.loadData each decide low stock as quantity <=
\* reorderThreshold, with an absent reorderThreshold taken as 0.
C12_LowStockEverywhere ==
    \A item \in Range(getInventoryItems(storage, StoreUser, "")) :
        /\ statsLowStock(item) = lowStockAsSpecified(item)
        /\ dashboardLowStock(item) = lowStockAsSpecified(item)
        /\ isLowStock(item) = lowStockAsSpecified(item)
        /\ reorderLowStock(item) = lowStockAsSpecified(item)

\* C13: the stats Dashboard computes from three listed collections equal, in
\* all five fields, what getStats returns when these are the user's local
\* collections.
C13_StatsSameOnBothBackends ==
    dashboardStats(getImages(storage, StoreUser), getZones(storage, StoreUser, ""),
                   getInventoryItems(storage, StoreUser, ""))
      = getStats(storage, StoreUser)

\* an image and two items are stored: one item at its threshold, the other
\* without a threshold and with quantity 0
C13_Witness ==
    /\ getImages(storage, StoreUser) # <<>>
    /\ \E item \in Range(getInventoryItems(storage, StoreUser, "")) :
          item.reorderThreshold # Undefined /\ item.quantity = item.reorderThreshold
    /\ \E item \in Range(getInventoryItems(storage, StoreUser, "")) :
          item.reorderThreshold = Undefined
    /\ getStats(storage, StoreUser).lowStockItems = 2

\* the ids of a collection that were saved and not deleted since
savedIds(table) == {k \in DOMAIN lastSaved : k[1] = table /\ k[2] = StoreUser}

Stats(images, zones, items, low) ==
    [totalImages |-> images, totalZones |-> zones, totalItems |-> items,
     lowStockItems |-> low, reorderSuggestions |-> low]

\* C14: after any sequence of saves and deletes getStats returns the sizes of
\* the three collections, the number of stored low-stock items, and the same
\* number as reorderSuggestions; and deleting the zone of a store that holds
\* one image, one zone on it and one item (quantity 2, threshold 5) of that
\* zone, whose stats are 1/1/1/1/1, gives 1/0/0/0/0.
C14_StatsCountTheStore ==
    /\ [](LET items == getInventoryItems(storage, StoreUser, "")
          IN  /\ getStats(storage, StoreUser)
                   = Stats(Len(getImages(storage, StoreUser)),
                           Len(getZones(storage, StoreUser, "")),
                           Len(items),
                           Cardinality({i \in 1..Len(items) :
                                          lowStockAsSpecified(items[i])}))
              /\ getStats(storage, StoreUser).totalImages = Cardinality(savedIds("images"))
              /\ getStats(storage, StoreUser).totalZones = Cardinality(savedIds("zones"))
              /\ getStats(storage, StoreUser).totalItems
                   = Cardinality(savedIds("inventory")))
    /\ [][\A z \in ZoneIds :
            (/\ DeleteZone(StoreUser, z)
             /\ Len(getImages(storage, StoreUser)) = 1
             /\ ids(getZones(storage, StoreUser, getImages(storage, StoreUser)[1].id)) = {z}
             /\ Len(getZones(storage, StoreUser, "")) = 1
             /\ Len(getInventoryItems(storage, StoreUser, "")) = 1
             /\ \A item \in Range(getInventoryItems(storage, StoreUser, "")) :
                   item.zoneId = z /\ item.quantity = 2 /\ item.reorderThreshold = 5)
            => /\ getStats(storage, StoreUser) = Stats(1, 1, 1, 1)
               /\ getStats(storage', StoreUser) = Stats(1, 0, 0, 0)
         ]_vars

\* the zone of the one item was deleted: one image is left, nothing else
C14_Witness ==
    /\ lastOp.op = "deleteZone"
    /\ lastOp.removed = 1
    /\ getStats(storage, StoreUser) = Stats(1, 0, 0, 0)

\* C15: every reorder candidate that loadData built from an item with a
\* non-negative threshold t carries the suggested quantity max(2*t, t+10):
\* 10 for t = 0, 13 for t = 3, 40 for t = 20.
C15_SuggestedQuantity ==
    (page.name = "reorder") =>
        \A c \in Range(page.reorderItems) :
            LET t == c.reorderThreshold
            IN  t >= 0 =>
                  /\ c.suggestedQuantity >= 2 * t
                  /\ c.suggestedQuantity >= t + 10
                  /\ c.suggestedQuantity \in {2 * t, t + 10}
                  /\ t = 0 => c.suggestedQuantity = 10
                  /\ t = 3 => c.suggestedQuantity = 13
                  /\ t = 20 => c.suggestedQuantity = 40

\* the reorder list holds a candidate of threshold 3 and one of threshold 20
C15_Witness ==
    /\ page.name = "reorder"
    /\ \E c \in Range(page.reorderItems) : c.reorderThreshold = 3
    /\ \E c \in Range(page.reorderItems) : c.reorderThreshold = 20

-----------------------------------------------------------------------------
(* Claims about the time of a write *)

\* C16: after a saveInventoryItem step that did not fail - a first save of a
\* new id or a save over a stored id - the stored item with that id has
\* updatedAt equal to the clock of the write, whatever updatedAt was passed.
C16_UpdatedAtIsWriteTime ==
    [][\A item \in ItemInputs(StoreUser) :
          (SaveInventoryItem(StoreUser, item) /\ ~lastOp'.threw)
            => /\ withId(storage', "inventory", StoreUser, item.id) # {}
               /\ \A stored \in Range(getInventoryItems(storage', StoreUser, "")) :
                      stored.id = item.id => stored.updatedAt = now
      ]_vars

-----------------------------------------------------------------------------
(* Claims about validation *)

\* a name that is empty or consists of spaces
blank(str) == \A i \in 1..Len(str) : SubSeq(str, i, i) = " "

\* C17: a submit of the inventory form whose name is empty or white space, or
\* whose zone is not chosen, makes no call to a backend and leaves the listed
\* items and both backends as they were; a save of a drawn zone whose name is
\* empty or white space makes no call, leaves both backends as they were and
\* keeps the pending zone.
C17_ValidationBeforePersistence ==
    [][/\ \A editingItem \in Range(page.items) \cup {Null}, ok \in BOOLEAN :
            \A form \in ItemForms(ids(page.zones)
                                  \cup (IF editingItem = Null THEN {}
                                        ELSE {editingItem.zoneId})) :
               (/\ HandleSubmit(editingItem, form, ok)
                /\ blank(form.name) \/ form.zoneId = "")
                 => /\ lastCall'.calls = {}
                    /\ page'.items = page.items
                    /\ remote' = remote
                    /\ storage' = storage
       /\ \A zoneName \in ZoneNames, ok \in BOOLEAN :
            (WorkspaceSaveZone(zoneName, ok) /\ blank(zoneName))
              => /\ lastCall'.calls = {}
                 /\ remote' = remote
                 /\ storage' = storage
                 /\ page'.currentZone = page.currentZone
                 /\ page'.currentZone # Null
                 /\ page'.editingZone = page.editingZone
                 /\ page'.zones = page.zones
      ]_vars

\* the form was submitted without a call while items and zones are listed
C17_Witness ==
    /\ lastCall.handler = "handleSubmit"
    /\ lastCall.calls = {}
    /\ page.name = "inventory"
    /\ page.items # <<>>
    /\ page.zones # <<>>

-----------------------------------------------------------------------------
(* Claims about the upload of an image *)

\* the images a backend lists for the user
listed(st, r, available) ==
    IF available THEN remoteList(r, "images", "userId", me) ELSE getImages(st, me)

\* C18: the first call of a running handleFileUpload is the remote file
\* upload, whatever databaseAvailable is, and no record write is called before
\* the upload resolved; the step in which the upload settles writes no record
\* and, when it rejects, adds no image and ends with uploading false; the
\* record written carries the URL the upload returned and goes to the remote
\* database if databaseAvailable and to the local store otherwise, one record
\* on that backend and none on the other; a failed record write adds no
\* image, and uploading is false when the handler has finished.
C18_UploadOrdering ==
    /\ [](\A h \in DOMAIN pending :
             /\ Len(pending[h].calls) >= 1
             /\ pending[h].calls[1] = Call("remote", "files", "upload")
             /\ pending[h].at = "upload" => Len(pending[h].calls) = 1
             /\ pending[h].at = "record" =>
                   pending[h].calls
                     = <<Call("remote", "files", "upload"),
                         Call(IF databaseAvailable THEN "remote" ELSE "local",
                              "images", "create")>>)
    /\ [][\A h \in Uploads :
            /\ \A uploaded \in BOOLEAN, publicUrl \in PublicUrls :
                  UploadSettled(h, uploaded, publicUrl) =>
                    /\ remote' = remote
                    /\ storage' = storage
                    /\ page'.images = page.images
                    /\ uploaded => /\ h \in DOMAIN pending'
                                   /\ pending'[h].imageRecord.imageUrl = publicUrl
                    /\ ~uploaded => /\ h \notin DOMAIN pending'
                                    /\ ~page'.uploading
                                    /\ ~lastCall'.ok
            /\ \A ok \in BOOLEAN :
                  RecordSettled(h, ok) =>
                    LET imageRecord == pending[h].imageRecord
                    IN  /\ h \notin DOMAIN pending'
                        /\ ~page'.uploading
                        /\ lastCall'.ok =>
                              /\ page'.images = <<imageRecord>> \o page.images
                              /\ Len(listed(storage', remote', databaseAvailable))
                                   = Len(listed(storage, remote, databaseAvailable)) + 1
                              /\ imageRecord
                                   \in Range(listed(storage', remote', databaseAvailable))
                              /\ listed(storage', remote', ~databaseAvailable)
                                   = listed(storage, remote, ~databaseAvailable)
                        /\ ~lastCall'.ok =>
                              /\ page'.images = page.images
                              /\ remote' = remote
                              /\ storage' = storage
       ]_vars

\* with the database unavailable an upload finished: the file went to the
\* remote storage and the record to the local store
C18_Witness ==
    /\ ~databaseAvailable
    /\ lastCall.handler = "handleFileUpload"
    /\ lastCall.ok
    /\ lastCall.calls = {Call("remote", "files", "upload"),
                         Call("local", "images", "create")}
    /\ ~page.uploading
    /\ page.images # <<>>
    /\ getImages(storage, me) # <<>>
    /\ remote.images = <<>>

-----------------------------------------------------------------------------
(* Claims about the two backends *)

\* the local table and the remote collection of each kind of record
Kinds == {<<"images", "images">>, <<"zones", "zones">>, <<"inventory", "inventoryItems">>}

\* the ids a step adds to a list
added(before, after) == ids(after) \ ids(before)

-----------------------------------------------------------------------------
(* Claims about concurrent saves *)

\* C20: a save that resumes writes the array it read before its await with
\* its record put in, whatever was stored since: for a record whose id the
\* array read does not hold, the collection stored afterwards is that array
\* with the record at the head (images) or at the tail (inventory items), and
\* a record that another save stored after the read is stored no longer.
C20_LostUpdate ==
    [][\A s \in Saves :
          (/\ SaveResumes(s)
           /\ pending[s].parsed
           /\ pending[s].rec.id \notin ids(pending[s].read))
            => LET c == pending[s]
                   before == readAll(storage, c.table, c.userId)
                   after == readAll(storage', c.table, c.userId)
               IN  /\ after = IF c.table = "images" THEN <<c.rec>> \o c.read
                              ELSE Append(c.read, c.rec)
                   /\ \A i \in 1..Len(before) :
                         (before[i].id \notin ids(c.read) /\ before[i].id # c.rec.id)
                           => before[i].id \notin ids(after)
      ]_vars

\* two saves of images with distinct ids have both returned, no image was
\* deleted since, and one image is stored
C20_Witness ==
    /\ pending = NoPending
    /\ lastOp.op = "saveImage"
    /\ ~lastOp.threw
    /\ Cardinality(savedIds("images")) = 2
    /\ Len(getImages(storage, StoreUser)) = 1


-----------------------------------------------------------------------------
(* Claims about corrupt local content *)

\* the text stored for a collection of the user is there and is not JSON
corrupt(st, table) ==
    LET text == getItem(st, getKey(table, StoreUser))
    IN  text # Null /\ "json" \notin DOMAIN text

\* the collections a page lists when it loads from the local store
listedBy(name) ==
    CASE name = "workspace" -> {"images"}
      [] name = "zones" -> {"zones", "images"}
      [] name = "dashboard" -> {"images", "zones", "inventory"}
      [] OTHER -> {}

\* C21: when the text under a local collection key cannot be deserialized,
\* a page that loads from the local store and lists that collection
\* (ImageWorkspace, ZoneManagement, Dashboard) leaves the stored text as it
\* was, takes its failure path, and shows empty collections and all-zero
\* stats.
C21_CorruptContentShowsEmpty ==
    [][(/\ page'.name # page.name
        /\ ~databaseAvailable
        /\ \E table \in listedBy(page'.name) : corrupt(storage, table))
       => /\ storage' = storage
          /\ \A table \in Tables : corrupt(storage, table) <=> corrupt(storage', table)
          /\ ~lastCall'.ok
          /\ page'.images = <<>>
          /\ page'.zones = <<>>
          /\ page'.stats = ZeroStats]_vars

\* the dashboard has been opened while the inventory text is corrupt and the
\* two other collections hold records
C21_Witness ==
    /\ ~databaseAvailable
    /\ lastCall.handler = "load" /\ lastCall.page = "dashboard" /\ ~lastCall.ok
    /\ corrupt(storage, "inventory")
    /\ ~corrupt(storage, "images") /\ count(storage, "images", StoreUser) > 0
    /\ ~corrupt(storage, "zones") /\ count(storage, "zones", StoreUser) > 0

\* the ids of the records in the parsed text of a collection of the user
idsIn(st, table) ==
    LET text == getItem(st, getKey(table, StoreUser))
    IN  IF text = Null THEN {} ELSE {text.json[i].id : i \in 1..Len(text.json)}

\* C26: when deleteZone finds the zones collection readable and the
\* inventory collection unreadable, it reports a failure, the zones
\* collection has been written without the zone and keeps its other zones
\* (no rollback), and the inventory text is left exactly as it was.
C26_BestEffortCascade ==
    [][(/\ lastOp' # lastOp
        /\ lastOp'.op = "deleteZone"
        /\ ~corrupt(storage, "zones")
        /\ corrupt(storage, "inventory"))
       => /\ lastOp'.threw
          /\ ~corrupt(storage', "zones")
          /\ idsIn(storage', "zones") = idsIn(storage, "zones") \ {lastOp'.id}
          /\ getItem(storage', getKey("inventory", StoreUser))
               = getItem(storage, getKey("inventory", StoreUser))
          /\ getItem(storage', getKey("images", StoreUser))
               = getItem(storage, getKey("images", StoreUser))]_vars

\* a deleteZone of a zone that was stored has failed on the corrupt
\* inventory text, and the zone is gone
C26_Witness ==
    /\ lastOp.op = "deleteZone" /\ lastOp.threw
    /\ corrupt(storage, "inventory")
    /\ ~corrupt(storage, "zones")
    /\ <<"zones", StoreUser, lastOp.id>> \in DOMAIN lastSaved
    /\ lastOp.id \notin idsIn(storage, "zones")

-----------------------------------------------------------------------------
(* Claims about calls on different collections *)

\* the records whose save has returned and that no completed delete covered
savedIn(table) ==
    {lastSaved[k].rec.id : k \in {q \in DOMAIN lastSaved : q[1] = table /\ q[2] = StoreUser}}

\* C22 as stated: a zone operation, deleteZone included, and an inventory-item
\* save touch disjoint keys, so in any interleaving of their steps the final
\* storage is that of running them one after the other: once no call is in
\* progress, every item whose save has returned, and whose zone no deleteZone
\* that returned afterwards removed, is stored.
C22_CrossCollectionCallsSerialize ==
    pending = NoPending => savedIn("inventory") \subseteq idsIn(storage, "inventory")

\* C22 amended: the keys written by one operation only (images by saveImage,
\* zones by saveZone and deleteZone) end as after a sequential run, whatever
\* the interleaving with calls on other collections: once no call is in
\* progress, the images and the zones stored are those saved and not deleted.
\* The inventory key is written by saveInventoryItem and by deleteZone both.
C22_DisjointKeysSerialize ==
    pending = NoPending =>
        /\ idsIn(storage, "images") = savedIn("images")
        /\ idsIn(storage, "zones") = savedIn("zones")

\* a deleteZone has returned after an interleaved item save whose item it
\* dropped, with an image and a zone stored
C22_Witness ==
    /\ pending = NoPending
    /\ lastOp.op = "deleteZone" /\ ~lastOp.threw
    /\ savedIn("inventory") \ idsIn(storage, "inventory") # {}
    /\ idsIn(storage, "images") # {}
    /\ idsIn(storage, "zones") # {}

-----------------------------------------------------------------------------
(* Claims about saving over a stored id *)

\* the second list has the length of the first and the same id at every place,
\* and differs from it at most in the record with the given id
inPlace(before, after, id) ==
    /\ Len(after) = Len(before)
    /\ \A i \in 1..Len(before) :
          /\ after[i].id = before[i].id
          /\ before[i].id # id => after[i] = before[i]

\* the save of a collection
savesOf(table) ==
    CASE table = "images" -> "saveImage"
      [] table = "zones" -> "saveZone"
      [] table = "inventory" -> "saveInventoryItem"

noTwoWithOneId(list) ==
    \A i, j \in 1..Len(list) : list[i].id = list[j].id => i = j

\* C23: a save of a record whose id is already stored keeps the length of the
\* collection and the place of every record, the other records unchanged; and
\* no collection ever holds two records with the same id.
C23_UpsertInPlace ==
    /\ [](\A table \in Tables : noTwoWithOneId(readAll(storage, table, StoreUser)))
    /\ [][\A table \in Tables :
            (/\ lastOp'.op = savesOf(table)
             /\ withId(storage, table, StoreUser, lastOp'.id) # {})
            => /\ ~lastOp'.threw
               /\ inPlace(readAll(storage, table, StoreUser),
                          readAll(storage', table, StoreUser), lastOp'.id)
         ]_vars

\* an inventory item stored in front of another one has been saved again
C23_Witness ==
    /\ lastOp.op = "saveInventoryItem"
    /\ <<"inventory", StoreUser, lastOp.id>> \in DOMAIN lastSaved
    /\ lastSaved[<<"inventory", StoreUser, lastOp.id>>].over
    /\ Len(getInventoryItems(storage, StoreUser, "")) >= 2
    /\ getInventoryItems(storage, StoreUser, "")[1].id = lastOp.id

\* C24 as stated: once a record with a given id is stored, no later save of
\* that id changes the stored createdAt, whatever createdAt the caller passes.
C24_CreatedAtSetOnce ==
    [][\A table \in Tables :
          lastOp'.op = savesOf(table) =>
            \A i \in withId(storage, table, StoreUser, lastOp'.id) :
              \A j \in withId(storage', table, StoreUser, lastOp'.id) :
                readAll(storage', table, StoreUser)[j].createdAt
                  = readAll(storage, table, StoreUser)[i].createdAt
      ]_vars

-----------------------------------------------------------------------------
(* Claims about the reorder candidates *)

\* the names of the loaded zones with the given id
namesOf(zones, zoneId) == {zones[i].name : i \in {j \in 1..Len(zones) : zones[j].id = zoneId}}

-----------------------------------------------------------------------------
(* Claims about the image workspace *)

\* the ids of the zones stored on either backend
storedZones(st, r) == ids(readAll(st, "zones", StoreUser)) \cup ids(r.zones)

\* no drag in progress, no zone awaiting a name
idle(pg) == ~pg.isDrawing /\ pg.currentZone = Null /\ pg.editingZone = ""

\* the step is a run of the named handler of the workspace
runs(handler) ==
    /\ page.name = "workspace"
    /\ lastCall'.handler = handler
    /\ lastCall' # lastCall \/ page' # page

\* C27: the workspace holds at most one pending zone: a drag in progress or a
\* zone awaiting its name has the one rectangle, and isDrawing and editingZone
\* are never both set; a drag starts only with an image selected and no zone
\* awaiting a name; releasing the mouse on a rectangle under 20 in |width| or
\* |height| discards it, persists nothing and returns to idle; only save adds
\* a zone to a backend; cancel returns to idle and persists nothing.
C27_DrawingStateMachine ==
    /\ [](/\ ~(page.isDrawing /\ page.editingZone # "")
          /\ (page.isDrawing \/ page.editingZone # "") => page.currentZone # Null
          /\ page.currentZone # Null => (page.isDrawing \/ page.editingZone # ""))
    /\ [][/\ (page'.isDrawing /\ page'.currentZone # page.currentZone
               /\ page'.currentZone = [width |-> 0, height |-> 0])
              => page.selectedImage # "" /\ page.editingZone = ""
          /\ (page'.isDrawing /\ ~page.isDrawing)
              => page.selectedImage # "" /\ page.editingZone = ""
          /\ (/\ runs("finishDrawing")
              /\ page.isDrawing /\ page.currentZone # Null
              /\ \/ (-20 < page.currentZone.width /\ page.currentZone.width < 20)
                 \/ (-20 < page.currentZone.height /\ page.currentZone.height < 20))
              => idle(page') /\ storage' = storage /\ remote' = remote
          /\ (/\ runs("finishDrawing")
              /\ page.isDrawing /\ page.currentZone # Null
              /\ ~(-20 < page.currentZone.width /\ page.currentZone.width < 20)
              /\ ~(-20 < page.currentZone.height /\ page.currentZone.height < 20))
              => /\ page'.editingZone # "" /\ page'.currentZone = page.currentZone
                 /\ storage' = storage /\ remote' = remote
          /\ ~(storedZones(storage', remote') \subseteq storedZones(storage, remote))
              => runs("saveZone") /\ lastCall'.ok
          /\ runs("cancelZone")
              => idle(page') /\ storage' = storage /\ remote' = remote
         ]_vars

\* a rectangle dragged to the left, 20 wide, awaits its name while a zone
\* saved before is displayed
C27_Witness ==
    /\ page.name = "workspace"
    /\ page.editingZone # ""
    /\ page.currentZone = [width |-> -20, height |-> 20]
    /\ page.zones # <<>>

\* the ids of the zones the selected backend stores for the selected image
storedForSelected(st, r, pg) ==
    LET zones == IF databaseAvailable THEN r.zones ELSE readAll(st, "zones", StoreUser)
    IN  {zones[i].id : i \in {j \in 1..Len(zones) : zones[j].imageId = pg.selectedImage}}

\* C28 as stated: with an image selected and its zones displayed as the
\* selected backend stores them, a saveZone or deleteZone call, succeeding or
\* failing, leaves the displayed zone ids equal to the stored ones; a failed
\* call leaves the displayed zones unchanged, and a failed save keeps the
\* pending zone.
C28_ViewMatchesStore ==
    [][(/\ runs("saveZone") \/ runs("deleteZone")
        /\ page.selectedImage # ""
        /\ ids(page.zones) = storedForSelected(storage, remote, page))
       => /\ ids(page'.zones) = storedForSelected(storage', remote', page')
          /\ ~lastCall'.ok
               => /\ page'.zones = page.zones
                  /\ page'.currentZone = page.currentZone
                  /\ page'.editingZone = page.editingZone]_vars

-----------------------------------------------------------------------------
(* Claims about the probe *)

\* App shows 'Checking database availability...'
checking == ~loading /\ user # NoUser /\ ~databaseChecked

\* C29: with a gateway that answers every call, every probe in flight, started
\* by the effect or by a retry, settles and leaves databaseChecked true with a
\* verdict, whether it was resolved or rejected; and whenever App shows
\* 'Checking database availability...' it later shows something else.
C29_ProbeSettles ==
    /\ \A p \in ProbeKeys :
          (p \in DOMAIN probes)
            ~> (lastEvent.type = "settled" /\ lastEvent.cause = p.cause /\ databaseChecked)
    /\ checking ~> ~checking
    /\ [][\A p \in ProbeKeys :
            (p \in DOMAIN probes /\ inFlight(probes') < inFlight(probes))
              => /\ databaseChecked'
                 /\ databaseError' \in BOOLEAN
                 /\ lastEvent'.outcome.ok => ~databaseError']_vars

\* a probe started by a retry was rejected and App left the checking screen
C29_Witness ==
    /\ lastEvent.type = "settled" /\ lastEvent.cause = "retry"
    /\ ~lastEvent.outcome.ok
    /\ databaseChecked /\ rendersPage

-----------------------------------------------------------------------------
(* Claims about restocking *)

\* the quantity loadData suggests for a threshold
suggestedFor(t) == IF 2 * t >= t + 10 THEN 2 * t ELSE t + 10

\* the step is a run of the named handler of the reorder page
handles(handler) ==
    /\ page.name = "reorder"
    /\ lastCall'.handler = handler
    /\ lastCall' # lastCall \/ page' # page \/ remote' # remote

\* C30: when markAsOrdered succeeds, every selected candidate of non-negative
\* threshold whose suggested quantity is the one loadData built is written with
\* quantity = suggestedQuantity > reorderThreshold, is not low on stock and is
\* no candidate after the reload; between loads the suggested quantity of a
\* candidate changes only in updateSuggestedQuantity, and it is never
\* negative; markAsOrdered with no candidate selected writes nothing.
C30_RestockClearsLowStock ==
    /\ [](page.name = "reorder" =>
            \A c \in Range(page.reorderItems) : c.suggestedQuantity >= 0)
    /\ [][/\ (handles("markAsOrdered") /\ lastCall'.ok /\ lastCall'.calls # {})
              => \A c \in Range(page.reorderItems) :
                    (/\ c.selected /\ c.reorderThreshold >= 0
                     /\ c.suggestedQuantity = suggestedFor(c.reorderThreshold))
                    => /\ c.id \in ids(remote'.inventoryItems)
                       /\ \A item \in Range(remote'.inventoryItems) :
                             item.id = c.id
                               => /\ item.quantity = c.suggestedQuantity
                                  /\ item.quantity > item.reorderThreshold
                                  /\ ~lowStockAsSpecified(item)
                       /\ c.id \notin ids(page'.reorderItems)
          /\ (/\ handles("markAsOrdered")
              /\ \A c \in Range(page.reorderItems) : ~c.selected)
              => /\ remote' = remote /\ storage' = storage
                 /\ lastCall'.calls = {}
          /\ (/\ page.name = "reorder" /\ page'.name = "reorder"
              /\ \E c \in Range(page.reorderItems), d \in Range(page'.reorderItems) :
                    c.id = d.id /\ c.suggestedQuantity # d.suggestedQuantity)
              => \/ handles("updateSuggestedQuantity")
                 \/ handles("markAsOrdered") /\ lastCall'.ok
         ]_vars

\* the candidate of threshold 3, its suggested quantity untouched, was marked
\* as restocked: the item holds 13 and the reloaded list is empty
C30_Witness ==
    /\ page.name = "reorder"
    /\ lastCall.handler = "markAsOrdered" /\ lastCall.ok /\ lastCall.calls # {}
    /\ page.reorderItems = <<>>
    /\ \E item \in Range(remote.inventoryItems) :
          item.reorderThreshold = 3 /\ item.quantity = 13

====
